---- MODULE Spec2Model ----
(***************************************************************************)
(* Iteration control plane of the lottery-strategy agent:                  *)
(*   StrategyModifier  (agent/strategy_modifier.py)                        *)
(*   ErrorRecoveryManager (agent/error_recovery.py)                        *)
(*   Orchestrator      (agent/orchestrator.py)                             *)
(*   Evaluator         (agent/evaluator.py)                                *)
(*   WeeklySettlementManager (agent/weekly_settlement.py)                  *)
(*                                                                         *)
(* A strategy text is abstracted to what the validation code can observe   *)
(* of it: whether ast.parse accepts it, which required patterns re.search  *)
(* finds, the integers the leverage regex extracts, the literals the       *)
(* stoploss regex extracts (in hundredths; badfloat says that one of them   *)
(* is a literal such as "-0.95." on which float() raises ValueError) and   *)
(* the compounding patterns found.  The id keeps different texts apart.    *)
(*                                                                         *)
(* Outside the process, and so chosen freely at each step: the answers of  *)
(* the code-generation service, the results of the backtests, the clock,   *)
(* and whether a write of the live artifact fails.  The settlement policy  *)
(* is the default one (force_settle).                                      *)
(***************************************************************************)
EXTENDS Integers, Sequences, FiniteSets, TLC

\* ---------------------------------------------------------------- bounds
MaxTime == 1          \* the wall clock runs 0..MaxTime (sub-second ticks)
MaxCalls == 3         \* StrategyModifier calls made by an API client
MaxRounds == 3        \* largest round cap (max_rounds) of a loop run
MaxLimit == 3         \* largest stale_rounds_limit
MaxRetries == 2       \* largest repair_max_retries
MaxBackups == 2       \* backups taken by a loop run with walk-forward or one repair retry
MaxPlainBackups == 3  \* backups taken by a loop run with neither
MaxWriteFailures == 1 \* writes of the live artifact that fail
MaxWeeks == 4         \* weeks settled on one report path
MaxWindows == 3       \* windows of one multi-window comparison
MaxAttempts == 3      \* largest max_retries of the DeepSeek client

\* ------------------------------------------------------------- constants
REQUIRED_PATTERNS == <<"WeeklyBudgetController", "can_open_trade", "confirm_trade_entry">>
MAX_LEVERAGE == 20
MIN_STOPLOSS == -98   \* -0.98, in hundredths
WARN_LEVERAGE == 10
TicksPerSecond == 2   \* resolution of st_mtime relative to the %H%M%S stamp

AllSyms == {REQUIRED_PATTERNS[i] : i \in 1..Len(REQUIRED_PATTERNS)}

Text(id, parses, syms, lev, sl, badfloat, cmp) ==
    [id |-> id, parses |-> parses, syms |-> syms, lev |-> lev, sl |-> sl,
     badfloat |-> badfloat, cmp |-> cmp]

InitialCode == Text(0, TRUE, AllSyms, <<5>>, <<-95>>, FALSE, {})
PatchA      == Text(1, TRUE, AllSyms, <<10>>, <<-95>>, FALSE, {})
PatchB      == Text(2, TRUE, AllSyms, <<20, 15>>, <<-98>>, FALSE, {"compound"})
BadSyntax   == Text(3, FALSE, AllSyms, <<5>>, <<-95>>, FALSE, {})
MissingSym  == Text(4, TRUE, AllSyms \ {"can_open_trade"}, <<5>>, <<-95>>, FALSE, {})
HighLev     == Text(5, TRUE, AllSyms, <<5, 25>>, <<-95>>, FALSE, {})
LowStoploss == Text(6, TRUE, AllSyms, <<5>>, <<-95, -99>>, FALSE, {})
BadLiteral  == Text(7, TRUE, AllSyms, <<25>>, <<-95>>, TRUE, {})
EmptyText   == Text(8, TRUE, {}, <<>>, <<>>, FALSE, {})

ValidPatches == {PatchA, PatchB}
InvalidPatches == {BadSyntax, MissingSym, HighLev, LowStoploss}
Candidates == ValidPatches \cup InvalidPatches \cup {BadLiteral, EmptyText}

\* round numbers an API client tags its patches with
RoundTags == {1, 2}

NoFile == [absent |-> TRUE]   \* the path does not exist
NoPath == <<>>                \* the empty string ""
Descs == {"a", "b"}           \* safe_desc values of two change descriptions

File(content, mtime) == [content |-> content, mtime |-> mtime]

\* -------------------------------------------------- sequence helpers
\* [F(x) for x in s]
MapSeq(s, F(_)) == [i \in 1..Len(s) |-> F(s[i])]

\* ------------------------------------------------ StrategyModifier
\* ast.parse(code) succeeds
validate_syntax(code) == code.parses

\* float(sl_str) raises ValueError
SafetyCheckRaises(code) == code.badfloat

MissingErr(p) == <<"Required pattern missing", p>>
LeverageErr(l) == <<"Leverage exceeds maximum", l>>
StoplossErr(s) == <<"Stoploss wider than minimum", s>>
LeverageWarn(l) == <<"Leverage above recommended", l>>
CompoundWarn(p) == <<"Possible compounding pattern", p>>

COMPOUND_PATTERNS == <<"compound", "reinvest", "stake_amount_balance">>

\* safety_check without the leverage cap
safety_check_nocap(code) ==
    LET missing == MapSeq(SelectSeq(REQUIRED_PATTERNS, LAMBDA p : p \notin code.syms),
                          MissingErr)
        slErr   == MapSeq(SelectSeq(code.sl, LAMBDA s : s < MIN_STOPLOSS), StoplossErr)
    IN  [errors |-> missing \o slErr, warnings |-> <<>>]

\* (errors, warnings) of a text on which no float() raises
safety_check(code) ==
    LET missing == MapSeq(SelectSeq(REQUIRED_PATTERNS, LAMBDA p : p \notin code.syms),
                          MissingErr)
        levErr  == MapSeq(SelectSeq(code.lev, LAMBDA l : l > MAX_LEVERAGE), LeverageErr)
        levWarn == MapSeq(SelectSeq(code.lev,
                              LAMBDA l : ~(l > MAX_LEVERAGE) /\ l > WARN_LEVERAGE),
                          LeverageWarn)
        slErr   == MapSeq(SelectSeq(code.sl, LAMBDA s : s < MIN_STOPLOSS), StoplossErr)
        cmpWarn == MapSeq(SelectSeq(COMPOUND_PATTERNS, LAMBDA p : p \in code.cmp),
                          CompoundWarn)
    IN  [errors |-> missing \o levErr \o slErr, warnings |-> levWarn \o cmpWarn]

\* filename f"round_{round_num:03d}_{ts}_{safe_desc}.py"
Stamp(t) == t \div TicksPerSecond
BackupName(round_num, t, desc) == <<round_num, Stamp(t), desc>>

\* _backup that names the backup but copies nothing
backup_nocopy(fs, round_num, desc, t) ==
    [path |-> BackupName(round_num, t, desc), backups |-> fs.backups]

\* _backup: copy2 keeps the source's content and modification time; no file
\* is written when the live artifact does not exist
backup(fs, round_num, desc, t) ==
    LET path == BackupName(round_num, t, desc)
    IN  [path |-> path,
         backups |-> IF fs.live = NoFile THEN fs.backups
                     ELSE (path :> fs.live) @@ fs.backups]

PatchResult(success, backup_path, errors, warnings) ==
    [success |-> success, backup_path |-> backup_path,
     errors |-> errors, warnings |-> warnings]

\* apply_patch that takes the backup before the safety check
apply_patch_eager(fs, new_code, round_num, desc, t, wfail) ==
    IF ~validate_syntax(new_code) THEN
        [fs |-> fs, raised |-> FALSE,
         ret |-> PatchResult(FALSE, NoPath, <<<<"Syntax error">>>>, <<>>)]
    ELSE IF SafetyCheckRaises(new_code) THEN
        [fs |-> fs, raised |-> TRUE, ret |-> PatchResult(FALSE, NoPath, <<>>, <<>>)]
    ELSE LET sc == safety_check(new_code)
             b == backup(fs, round_num, desc, t) IN
        IF sc.errors # <<>> THEN
            [fs |-> [live |-> fs.live, backups |-> b.backups], raised |-> FALSE,
             ret |-> PatchResult(FALSE, NoPath, sc.errors, sc.warnings)]
        ELSE
            [fs |-> [live |-> File(new_code, t), backups |-> b.backups],
             raised |-> FALSE,
             ret |-> PatchResult(TRUE, b.path, <<>>, sc.warnings)]

\* apply_patch(new_code, round_num, description) at time t; wfail: the
\* atomic write raises.  Yields the new files, the returned dict and whether
\* an exception left the call.
apply_patch(fs, new_code, round_num, desc, t, wfail) ==
    IF ~validate_syntax(new_code) THEN
        [fs |-> fs, raised |-> FALSE,
         ret |-> PatchResult(FALSE, NoPath, <<<<"Syntax error">>>>, <<>>)]
    ELSE IF SafetyCheckRaises(new_code) THEN
        [fs |-> fs, raised |-> TRUE, ret |-> PatchResult(FALSE, NoPath, <<>>, <<>>)]
    ELSE LET sc == safety_check(new_code) IN
        IF sc.errors # <<>> THEN
            [fs |-> fs, raised |-> FALSE,
             ret |-> PatchResult(FALSE, NoPath, sc.errors, sc.warnings)]
        ELSE LET b == backup(fs, round_num, desc, t) IN
            IF ~wfail THEN
                [fs |-> [live |-> File(new_code, t), backups |-> b.backups],
                 raised |-> FALSE,
                 ret |-> PatchResult(TRUE, b.path, <<>>, sc.warnings)]
            ELSE
                [fs |-> [live |-> IF b.path \in DOMAIN b.backups
                                  THEN b.backups[b.path] ELSE fs.live,
                         backups |-> b.backups],
                 raised |-> FALSE,
                 ret |-> PatchResult(FALSE, b.path, <<<<"Write failed">>>>, sc.warnings)]

\* the backups that glob(f"round_{round_num:03d}_*.py") finds
Tagged(bk, round_num) == {p \in DOMAIN bk : p[1] = round_num}

\* max(backups, key=st_mtime): a backup of greatest mtime (glob order
\* decides between equal mtimes)
Latest(bk, round_num) ==
    {p \in Tagged(bk, round_num) :
        \A q \in Tagged(bk, round_num) : bk[q].mtime <= bk[p].mtime}

\* rollback(round_num), restoring the chosen backup `latest'
rollback(fs, round_num, latest) ==
    IF Tagged(fs.backups, round_num) = {} THEN [fs |-> fs, ok |-> FALSE]
    ELSE [fs |-> [live |-> fs.backups[latest], backups |-> fs.backups], ok |-> TRUE]

\* the choices rollback can make (one dummy choice when it returns False)
RollbackChoices(bk, round_num) ==
    IF Tagged(bk, round_num) = {} THEN {NoPath} ELSE Latest(bk, round_num)

\* ------------------------------------------------------- Evaluator
\* Metrics are integers: hit rate in percent, profit, loss, hours.  A score
\* is kept in hundredths, as round(total, 2) leaves it (float error aside).
EmptyMetrics == <<>>
Get(m, key, default) == IF key \in DOMAIN m THEN m[key] ELSE default

MetricsOf(profit, hit, loss, hours) ==
    [monthly_net_profit_avg |-> profit, weekly_target_hit_rate |-> hit,
     max_monthly_loss |-> loss, avg_trade_duration_hours |-> hours]

MPoor == MetricsOf(10, 30, 100, 24)
MGood == MetricsOf(50, 30, 100, 24)
Metrics == {MPoor, MGood}

W_PROFIT == 40        \* monthly_avg_profit_w = 0.4
W_HIT == 30           \* weekly_target_hit_rate_w = 0.3
W_LOSS == 20          \* max_monthly_loss_w = 0.2
W_EFFICIENCY == 10    \* trade_efficiency_w = 0.1
FALLBACK_DURATION == 24
OOS_SCORE_RATIO_MIN == 60   \* 0.6

\* round(n / d) for d > 0, ties to even
RoundHalfEven(n, d) ==
    LET q == n \div d
        r == n % d
    IN  IF 2 * r < d THEN q
        ELSE IF 2 * r > d THEN q + 1
        ELSE IF q % 2 = 0 THEN q ELSE q + 1

\* a duration that falls back to one hour
avg_duration_one(m) ==
    LET avg0 == Get(m, "avg_trade_duration_hours", FALLBACK_DURATION)
    IN  IF avg0 <= 0 THEN 1 ELSE avg0

\* _calculate_score: the duration it divides by
avg_duration(m) ==
    LET avg0 == Get(m, "avg_trade_duration_hours", FALLBACK_DURATION)
    IN  IF avg0 <= 0 THEN FALLBACK_DURATION ELSE avg0

\* _calculate_score: 100 * round(s1 + s2 + s3 + s4, 2)
calculate_score(m) ==
    LET monthly_profit == Get(m, "monthly_net_profit_avg", 0)
        wtr == Get(m, "weekly_target_hit_rate", 0)
        max_loss == Get(m, "max_monthly_loss", 0)
        duration == avg_duration(m)
    IN  RoundHalfEven((W_PROFIT * monthly_profit + W_HIT * wtr - W_LOSS * max_loss)
                          * duration + 100 * W_EFFICIENCY,
                      duration)

\* the scores whose exact ratio is the threshold: their float quotient may
\* fall below 0.6 (2.01 / 3.35 does) or not (6.0 / 10.0 does not)
AtThreshold(is_score, oos_score) ==
    is_score > 0 /\ 100 * oos_score = OOS_SCORE_RATIO_MIN * is_score
QuotientRounding(is_score, oos_score) ==
    IF AtThreshold(is_score, oos_score) THEN BOOLEAN ELSE {FALSE}

\* compare_is_oos that divides whatever the sign of the in-sample score
compare_is_oos_signed(is_score, oos_score, down) ==
    IF is_score = 0 THEN [ok |-> FALSE, msg |-> <<"IS score is 0, cannot evaluate">>]
    ELSE IF \/ 100 * oos_score < OOS_SCORE_RATIO_MIN * is_score
            \/ AtThreshold(is_score, oos_score) /\ down
    THEN [ok |-> FALSE, msg |-> <<"OVERFITTING: OOS/IS ratio below threshold">>]
    ELSE [ok |-> TRUE, msg |-> <<"Walk-forward PASSED">>]

\* compare_is_oos on the two scores: (is_valid, message); down: the float
\* quotient of two scores at the threshold falls below it
compare_is_oos(is_score, oos_score, down) ==
    IF is_score = 0 THEN [ok |-> FALSE, msg |-> <<"IS score is 0, cannot evaluate">>]
    ELSE IF (IF is_score > 0
             THEN \/ 100 * oos_score < OOS_SCORE_RATIO_MIN * is_score
                  \/ AtThreshold(is_score, oos_score) /\ down
             ELSE 0 < OOS_SCORE_RATIO_MIN)
    THEN [ok |-> FALSE, msg |-> <<"OVERFITTING: OOS/IS ratio below threshold">>]
    ELSE [ok |-> TRUE, msg |-> <<"Walk-forward PASSED">>]

\* PassCriteria defaults (hit rate in percent)
HIT_RATE_MIN == 25
MAX_DRAWDOWN_MAX == 95
TOTAL_TRADES_MIN == 50
STAKE_LIMIT_HITS_MAX == 0
MONTHLY_PROFIT_MIN == 0

\* _gate_check with a profit floor that equality passes
gate_check_floor(m) ==
    (IF Get(m, "weekly_target_hit_rate", 0) < HIT_RATE_MIN
     THEN <<"weekly_target_hit_rate">> ELSE <<>>)
    \o (IF Get(m, "max_drawdown_pct", 0) > MAX_DRAWDOWN_MAX
        THEN <<"max_drawdown_pct">> ELSE <<>>)
    \o (IF Get(m, "total_trades", 0) < TOTAL_TRADES_MIN
        THEN <<"total_trades">> ELSE <<>>)
    \o (IF Get(m, "stake_limit_hit_count", 0) > STAKE_LIMIT_HITS_MAX
        THEN <<"stake_limit_hit_count">> ELSE <<>>)
    \o (IF Get(m, "monthly_net_profit_avg", 0) < MONTHLY_PROFIT_MIN
        THEN <<"monthly_net_profit_avg">> ELSE <<>>)

\* _gate_check: the failure messages, each named by the metric it is about
gate_check(m) ==
    (IF Get(m, "weekly_target_hit_rate", 0) < HIT_RATE_MIN
     THEN <<"weekly_target_hit_rate">> ELSE <<>>)
    \o (IF Get(m, "max_drawdown_pct", 0) > MAX_DRAWDOWN_MAX
        THEN <<"max_drawdown_pct">> ELSE <<>>)
    \o (IF Get(m, "total_trades", 0) < TOTAL_TRADES_MIN
        THEN <<"total_trades">> ELSE <<>>)
    \o (IF Get(m, "stake_limit_hit_count", 0) > STAKE_LIMIT_HITS_MAX
        THEN <<"stake_limit_hit_count">> ELSE <<>>)
    \o (IF Get(m, "monthly_net_profit_avg", 0) <= MONTHLY_PROFIT_MIN
        THEN <<"monthly_net_profit_avg">> ELSE <<>>)

\* evaluate(metrics): the EvalResult
evaluate(m) ==
    LET gate_failures == gate_check(m) IN
    [passed |-> Len(gate_failures) = 0, score |-> calculate_score(m),
     gate_failures |-> gate_failures]

\* --------------------------------------------------- BacktestRunner
\* what one run meets: the freqtrade process (exit code and stderr, a
\* timeout, or subprocess.run raising), whether a result file is found,
\* and what loading it gives (metrics, or an exception with its text)
Exited(returncode, stderr) ==
    [kind |-> "exit", returncode |-> returncode, stderr |-> stderr]
TimedOut == [kind |-> "timeout"]
Raised(text) == [kind |-> "exception", text |-> text]
Loaded(m) == [ok |-> TRUE, metrics |-> m]
LoadFails(text) == [ok |-> FALSE, text |-> text]

RunResult(success, error, metrics) ==
    [success |-> success, error |-> error, metrics |-> metrics]

\* BacktestRunner.run
run(process, found, load) ==
    IF process.kind = "timeout" THEN
        RunResult(FALSE, "Backtest timed out (>600s)", EmptyMetrics)
    ELSE IF process.kind = "exception" THEN
        RunResult(FALSE, process.text, EmptyMetrics)
    ELSE IF process.returncode # 0 THEN
        RunResult(FALSE, process.stderr, EmptyMetrics)
    ELSE IF ~found THEN
        RunResult(FALSE, "No result file found after backtest", EmptyMetrics)
    ELSE IF ~load.ok THEN
        RunResult(FALSE, load.text, EmptyMetrics)
    ELSE
        RunResult(TRUE, "", load.metrics)

\* ---------------------------------------------------- classify_error
\* An error log is a sequence of characters.  re.search with IGNORECASE:
\* a pattern word matches where the lower-cased log holds it.
UpperCase == <<"A", "B", "C", "D", "E", "F", "G", "H", "I", "J", "K", "L", "M">>
                 \o <<"N", "O", "P", "Q", "R", "S", "T", "U", "V", "W", "X", "Y", "Z">>
LowerCase == <<"a", "b", "c", "d", "e", "f", "g", "h", "i", "j", "k", "l", "m">>
                 \o <<"n", "o", "p", "q", "r", "s", "t", "u", "v", "w", "x", "y", "z">>
Lower(c) ==
    IF \E i \in DOMAIN UpperCase : UpperCase[i] = c
    THEN LowerCase[CHOOSE i \in DOMAIN UpperCase : UpperCase[i] = c]
    ELSE c
\* \w: letters, digits and the underscore
WordChar(c) ==
    \/ \E i \in DOMAIN LowerCase : LowerCase[i] = Lower(c)
    \/ c \in {"0", "1", "2", "3", "4", "5", "6", "7", "8", "9", "_"}

\* the log holds `word' at position i
FoundAt(log, word, i) ==
    /\ i + Len(word) - 1 <= Len(log)
    /\ \A k \in DOMAIN word : Lower(log[i + k - 1]) = word[k]
Found(log, word) == \E i \in DOMAIN log : FoundAt(log, word, i)
\* \bword\b: no word character right before or right after
FoundWord(log, word) ==
    \E i \in DOMAIN log :
        /\ FoundAt(log, word, i)
        /\ (i = 1 \/ ~WordChar(log[i - 1]))
        /\ (i + Len(word) > Len(log) \/ ~WordChar(log[i + Len(word)]))

\* _SYNTAX_PATTERNS, _RUNTIME_PATTERNS, _CONFIG_PATTERNS, _DATA_PATTERNS
SYNTAX_PATTERNS ==
    {<<"s", "y", "n", "t", "a", "x", "e", "r", "r", "o", "r">>,
     <<"i", "n", "d", "e", "n", "t", "a", "t", "i", "o", "n", "e", "r", "r", "o", "r">>}
RUNTIME_PATTERNS ==
    {<<"k", "e", "y", "e", "r", "r", "o", "r">>,
     <<"n", "a", "m", "e", "e", "r", "r", "o", "r">>,
     <<"a", "t", "t", "r", "i", "b", "u", "t", "e", "e", "r", "r", "o", "r">>,
     <<"t", "y", "p", "e", "e", "r", "r", "o", "r">>,
     <<"i", "n", "d", "e", "x", "e", "r", "r", "o", "r">>}
CONFIG_PATTERNS ==
    {<<"c", "o", "n", "f", "i", "g">>,
     <<"j", "s", "o", "n">>,
     <<"s", "e", "t", "t", "i", "n", "g", "s">>}
DATA_WORD == <<"d", "a", "t", "a">>
DATA_PATTERNS ==
    {<<"d", "o", "w", "n", "l", "o", "a", "d">>,
     <<"p", "a", "i", "r", "s">>,
     <<"t", "i", "m", "e", "r", "a", "n", "g", "e">>}

MatchesSyntax(log) == \E w \in SYNTAX_PATTERNS : Found(log, w)
MatchesRuntime(log) == \E w \in RUNTIME_PATTERNS : Found(log, w)
MatchesConfig(log) == \E w \in CONFIG_PATTERNS : Found(log, w)
MatchesData(log) == FoundWord(log, DATA_WORD) \/ \E w \in DATA_PATTERNS : Found(log, w)

\* a classify_error that looks for configuration keywords first
classify_error_config_first(error_log) ==
    IF MatchesConfig(error_log) THEN "config"
    ELSE IF MatchesSyntax(error_log) THEN "syntax"
    ELSE IF MatchesRuntime(error_log) THEN "runtime"
    ELSE IF MatchesData(error_log) THEN "data"
    ELSE "unknown"

\* classify_error(error_log)
classify_error(error_log) ==
    IF MatchesSyntax(error_log) THEN "syntax"
    ELSE IF MatchesRuntime(error_log) THEN "runtime"
    ELSE IF MatchesConfig(error_log) THEN "config"
    ELSE IF MatchesData(error_log) THEN "data"
    ELSE "unknown"

\* ------------------------------------------------------- Comparator
\* windows: the label -> timerange mapping in its iteration order, a
\* sequence of [label, timerange] with distinct labels; results[i] is what
\* the runner answers to the i-th call.
WindowLabels == {"bull", "bear", "sideways"}
Timeranges == {"20250101-20250301", "20250401-20250601"}
LabelsOf(windows) == {windows[i].label : i \in DOMAIN windows}

\* a run_multi_window that gives up at the first window that fails
run_multi_window_abort(windows, results) ==
    LET ran == {i \in DOMAIN windows : \A j \in 1..(i - 1) : results[j].success}
        done == {i \in ran : results[i].success}
    IN  [calls |-> [i \in 1..Cardinality(ran) |-> windows[i].timerange],
         ret |-> [metrics_by_window |->
                     [label \in {windows[i].label : i \in done} |->
                         LET i == CHOOSE j \in done : windows[j].label = label
                         IN  results[i].metrics]]]

\* run_multi_window(windows): the runner calls made (their timeranges, in
\* order) and the metrics_by_window returned
run_multi_window(windows, results) ==
    [calls |-> [i \in DOMAIN windows |-> windows[i].timerange],
     ret |-> [metrics_by_window |->
                 [label \in LabelsOf(windows) |->
                     LET i == CHOOSE j \in DOMAIN windows : windows[j].label = label
                     IN  IF results[i].success THEN results[i].metrics
                         ELSE EmptyMetrics]]]

\* ------------------------------------------------- TargetOptimizer
\* A metric value or delta is Num(u, e): u units plus e hundred-millionths
\* of a unit (a hair), the unit being 0.01 for the hit rate and 1 for the
\* other metrics.  No value used is both whole units and hairs away from
\* its target, so a square has a unit part and a hair part and no mixed one.
Num(u, e) == [u |-> u, e |-> e]
Zero == Num(0, 0)
Minus(a, b) == Num(a.u - b.u, a.e - b.e)
Plus(a, b) == Num(a.u + b.u, a.e + b.e)
Positive(d) == d.u > 0 \/ (d.u = 0 /\ d.e > 0)
Less(a, b) == a.u < b.u \/ (a.u = b.u /\ a.e < b.e)

\* DEFAULT_TARGET_PROFILE (hit rate in percent) and 2 * DEFAULT_WEIGHTS
DEFAULT_TARGET_PROFILE ==
    [weekly_target_hit_rate |-> 25, monthly_net_profit_avg |-> 100,
     max_monthly_loss |-> 200, max_drawdown_pct |-> 50]
DEFAULT_WEIGHTS ==
    [weekly_target_hit_rate |-> 4, monthly_net_profit_avg |-> 3,
     max_monthly_loss |-> 2, max_drawdown_pct |-> 2]
GapKeys == <<"weekly_target_hit_rate", "monthly_net_profit_avg",
             "max_monthly_loss", "max_drawdown_pct">>
LowerIsBetter == {"max_monthly_loss", "max_drawdown_pct"}

\* norms are kept as NormScale * norm^2, exact for the default profile:
\* NormScale / target^2 is a whole number for every target
NormScale == 80000
\* round(weighted_norm, 6) is 0.0 for a norm below 0.0000005, that is for
\* NormScale * norm^2 below 2 * 10^8 squared hairs
ROUND_HALF == Num(0, 200000000)

\* compute_gap, the loop over the target profile: the deltas
compute_deltas(current) ==
    [key \in DOMAIN DEFAULT_TARGET_PROFILE |->
        LET current_val == Get(current, key, Zero)
            target_val == Num(DEFAULT_TARGET_PROFILE[key], 0)
        IN  IF key \in LowerIsBetter THEN Minus(current_val, target_val)
            ELSE Minus(target_val, current_val)]

\* weight * norm_delta ** 2 (times NormScale), norm_delta = delta / |target|
NormTerm(key, delta) ==
    LET target_val == DEFAULT_TARGET_PROFILE[key]
        w == (DEFAULT_WEIGHTS[key] * (NormScale \div 2)) \div (target_val * target_val)
    IN  Num(w * delta.u * delta.u, w * delta.e * delta.e)

\* a norm that accumulates from every delta, met or not
RECURSIVE weighted_norm_all(_, _)
weighted_norm_all(deltas, i) ==
    IF i > Len(GapKeys) THEN Zero
    ELSE Plus(NormTerm(GapKeys[i], deltas[GapKeys[i]]),
              weighted_norm_all(deltas, i + 1))

\* _weighted_norm: acc over the keys from the i-th on
RECURSIVE weighted_norm(_, _)
weighted_norm(deltas, i) ==
    IF i > Len(GapKeys) THEN Zero
    ELSE LET key == GapKeys[i]
             delta == deltas[key]
         IN  IF ~Positive(delta) THEN weighted_norm(deltas, i + 1)
             ELSE Plus(NormTerm(key, delta), weighted_norm(deltas, i + 1))

\* round(weighted_norm, 6), as far as it matters: is the result 0.0
Round6(norm) == IF Less(norm, ROUND_HALF) THEN Zero ELSE norm

\* compute_gap(current_metrics, round_num) with fine_tune_threshold given
\* by NormScale * threshold^2
compute_gap(current, round_num, threshold) ==
    LET deltas == compute_deltas(current)
        norm == weighted_norm(deltas, 1)
    IN  [round |-> round_num, target_profile |-> "default",
         weighted_norm |-> Round6(norm),
         mode |-> IF Less(norm, threshold) THEN "fine_tune" ELSE "explore"]

\* ------------------------------------------------ external services
\* BacktestRunner.run: a failure or a metrics record
BtFail == [success |-> FALSE, metrics |-> EmptyMetrics]
BtOk(m) == [success |-> TRUE, metrics |-> m]
BacktestResults == {BtFail} \cup {BtOk(m) : m \in Metrics}

RepairPatch == Text(9, TRUE, AllSyms, <<3>>, <<-90>>, FALSE, {})

\* responses of generate_strategy_patch (an exception is a separate outcome)
Response(c) ==
    [changes_made |-> IF c = PatchB THEN "b" ELSE "a",
     code_patch |-> c,
     next_action |-> IF c = PatchB THEN <<>> ELSE <<"continue">>]
LlmResponses == {Response(c) : c \in Candidates}

\* responses of generate_fix_patch
FixResponse(c) == [code_patch |-> c, fix_summary |-> "fixed"]
FixResponses == {FixResponse(c) : c \in {RepairPatch, BadSyntax, HighLev, BadLiteral, EmptyText}}

\* `not new_code': the empty string
IsEmptyText(c) == c = EmptyText

\* safe_desc of f"auto-repair attempt {attempt}: {fix_summary}"
RepairDesc(k, fix_summary) == "auto_repair_attempt_" \o ToString(k) \o "_" \o fix_summary

\* ------------------------------------------- WeeklySettlementManager
WEEKLY_BUDGET == 100
WEEKLY_TARGET == 1000
COOLDOWN_THRESHOLD == 3

\* WeeklySettlementManager(weekly_budget, weekly_target, cooldown_threshold_weeks)
Manager(budget, target, threshold) ==
    [weekly_budget |-> budget, weekly_target |-> target, cooldown_threshold |-> threshold]

\* the manager the Orchestrator builds from a configuration without these keys
DefaultManager == Manager(WEEKLY_BUDGET, WEEKLY_TARGET, COOLDOWN_THRESHOLD)

\* s[start:] of Python
SliceFrom(s, start) ==
    LET n == Len(s)
        from == IF start < 0 THEN (IF n + start < 0 THEN 0 ELSE n + start)
                ELSE (IF start > n THEN n ELSE start)
    IN  SubSeq(s, from + 1, n)

\* _check_cooldown that looks at the statuses only
check_cooldown_status(hist, n) ==
    IF Len(hist) < n THEN FALSE
    ELSE LET tail == SliceFrom(hist, -n)
         IN  \A i \in 1..Len(tail) : tail[i].status # "TARGET_HIT"

\* _check_cooldown on the history hist with threshold n
check_cooldown(hist, n) ==
    IF Len(hist) < n THEN FALSE
    ELSE LET tail == SliceFrom(hist, -n)
         IN  /\ \A i \in 1..Len(tail) : tail[i].status # "TARGET_HIT"
             /\ \A i \in 1..Len(tail) : tail[i].weekly_pnl < 0

\* settle_week that tests the budget before the target
settle_week_budget_first(m, hist, week_id, weekly_pnl) ==
    LET reached_target == weekly_pnl >= m.weekly_target
        exhausted_budget == weekly_pnl <= -m.weekly_budget
        status == IF exhausted_budget THEN "BUDGET_EXHAUSTED"
                  ELSE IF reached_target THEN "TARGET_HIT"
                  ELSE "WEEK_END_SETTLED"
        report == [week_id |-> week_id, status |-> status, weekly_pnl |-> weekly_pnl,
                   reached_target |-> reached_target,
                   exhausted_budget |-> exhausted_budget,
                   action_next_week |-> "reset_budget_100",
                   cooldown_triggered |-> FALSE]
        cool == check_cooldown(Append(hist, report), m.cooldown_threshold)
    IN  IF cool THEN [report EXCEPT !.cooldown_triggered = TRUE,
                                    !.action_next_week = "cooldown_dryrun"]
        ELSE report

\* settle_week that flags the cooldown but keeps the default action
settle_week_keep_action(m, hist, week_id, weekly_pnl) ==
    LET reached_target == weekly_pnl >= m.weekly_target
        exhausted_budget == weekly_pnl <= -m.weekly_budget
        status == IF reached_target THEN "TARGET_HIT"
                  ELSE IF exhausted_budget THEN "BUDGET_EXHAUSTED"
                  ELSE "WEEK_END_SETTLED"
        report == [week_id |-> week_id, status |-> status, weekly_pnl |-> weekly_pnl,
                   reached_target |-> reached_target,
                   exhausted_budget |-> exhausted_budget,
                   action_next_week |-> "reset_budget_100",
                   cooldown_triggered |-> FALSE]
        cool == check_cooldown(Append(hist, report), m.cooldown_threshold)
    IN  IF cool THEN [report EXCEPT !.cooldown_triggered = TRUE]
        ELSE report

\* settle_week: the report, appended to the history before the cooldown check
settle_week(m, hist, week_id, weekly_pnl) ==
    LET reached_target == weekly_pnl >= m.weekly_target
        exhausted_budget == weekly_pnl <= -m.weekly_budget
        status == IF reached_target THEN "TARGET_HIT"
                  ELSE IF exhausted_budget THEN "BUDGET_EXHAUSTED"
                  ELSE "WEEK_END_SETTLED"
        report == [week_id |-> week_id, status |-> status, weekly_pnl |-> weekly_pnl,
                   reached_target |-> reached_target,
                   exhausted_budget |-> exhausted_budget,
                   action_next_week |-> "reset_budget_100",
                   cooldown_triggered |-> FALSE]
        cool == check_cooldown(Append(hist, report), m.cooldown_threshold)
    IN  IF cool THEN [report EXCEPT !.cooldown_triggered = TRUE,
                                    !.action_next_week = "cooldown_dryrun"]
        ELSE report

\* the weekly pnl values settled, and the numbers a report line can hold
PnlValues == {-200, -100, -50, 0, 1000}

\* weekly_settlement_reports.jsonl: absent, or a sequence of lines
LogFile(exists, lines) == [exists |-> exists, lines |-> lines]
NoLog == LogFile(FALSE, <<>>)

\* json.dumps(report): each value as the JSON token it is written as
JsonString(v) == <<"string", v>>
JsonNumber(v) == <<"number", ToString(v)>>
JsonBool(v) == <<"literal", IF v THEN "true" ELSE "false">>
dumps(report) ==
    [week_id |-> JsonString(report.week_id), status |-> JsonString(report.status),
     weekly_pnl |-> JsonNumber(report.weekly_pnl),
     reached_target |-> JsonBool(report.reached_target),
     exhausted_budget |-> JsonBool(report.exhausted_budget),
     action_next_week |-> JsonString(report.action_next_week),
     cooldown_triggered |-> JsonBool(report.cooldown_triggered)]

\* json.loads(line)
ParseNumber(text) == CHOOSE n \in PnlValues : ToString(n) = text
ParseToken(tok) ==
    IF tok[1] = "string" THEN tok[2]
    ELSE IF tok[1] = "number" THEN ParseNumber(tok[2])
    ELSE tok[2] = "true"
loads(line) == [k \in DOMAIN line |-> ParseToken(line[k])]

\* save_report that opens the file for writing instead of appending
save_report_overwrite(log, report) == LogFile(TRUE, <<dumps(report)>>)

\* save_report: one line appended, the file created if need be
save_report(log, report) == LogFile(TRUE, Append(log.lines, dumps(report)))

\* load_history: the history a manager holding hist has afterwards
load_history(hist, log) ==
    IF ~log.exists THEN hist ELSE MapSeq(log.lines, loads)

\* ------------------------------------------------------------ state
VARIABLES
    live,       \* the live strategy artifact: NoFile or File(content, mtime)
    backups,    \* backup directory: name -> File
    now,        \* wall clock
    initial,    \* history: the artifact at construction
    faults,     \* number of writes of the live artifact that have failed
    op,         \* the StrategyModifier call an API client made last, with its result
    calls,      \* number of calls the API client has made
    newest,     \* history: round tag -> name of the backup written last under it
    rolled,     \* history: a client's rollback has restored a backup
    cfg,        \* Orchestrator.config
    pc,         \* position of run_iteration_loop
    round_no,   \* loop variable round_num of run_iteration_loop
    rounds,     \* list of IterationRound records
    rec,        \* base_record of the round in progress
    llm_result, \* the code-generation response of the round in progress
    attempt,    \* loop variable of attempt_fix
    userdata,   \* user_data/strategies copy the backtest engine loads
    history,    \* WeeklySettlementManager.history
    report_log, \* weekly_settlement_reports.jsonl
    begin,      \* history: content of the artifact when the current round began
    artifacts,  \* history: content of the artifact when round i was recorded
    fix,        \* history: attempt_fix of the round in progress (calls, re-runs, return)
    mgr         \* the WeeklySettlementManager's budget, target and cooldown threshold

fsVars == <<live, backups, now, initial, faults>>
apiVars == <<op, calls, newest, rolled>>
orchVars == <<cfg, pc, round_no, rounds, rec, llm_result, attempt, userdata,
              history, report_log, begin, artifacts, fix, mgr>>
vars == <<live, backups, now, initial, faults, op, calls, newest, rolled, cfg, pc, round_no, rounds,
          rec, llm_result, attempt, userdata, history, report_log, begin, artifacts,
          fix, mgr>>

FS == [live |-> live, backups |-> backups]
NoOp == [name |-> "none"]
InitialMtime == 0
EmptyDir == [p \in {} |-> NoFile]

InitFiles ==
    /\ live \in {NoFile, File(InitialCode, InitialMtime)}
    /\ backups = EmptyDir
    /\ now = 0
    /\ initial = live
    /\ faults = 0

InitApi ==
    /\ op = NoOp
    /\ calls = 0
    /\ newest = EmptyDir
    /\ rolled = FALSE

\* the clock advances between two operations
Tick ==
    /\ now < MaxTime
    /\ now' = now + 1
    /\ UNCHANGED <<live, backups, initial, faults>>

\* ------------------------------------- StrategyModifier used directly
\* apply_patch came to its write and the write failed
WriteFailed(r) == ~r.raised /\ ~r.ret.success /\ r.ret.backup_path # NoPath

\* what a write of the live artifact may do: succeed, or fail while the
\* bound on failures allows
WriteOutcomes == IF faults < MaxWriteFailures THEN BOOLEAN ELSE {FALSE}

\* a client calls apply_patch(new_code, round_num, desc)
CallApplyPatch(new_code, round_num, desc, wfail) ==
    LET r == apply_patch(FS, new_code, round_num, desc, now, wfail) IN
    /\ calls < MaxCalls
    /\ calls' = calls + 1
    /\ live' = r.fs.live
    /\ backups' = r.fs.backups
    /\ faults' = IF WriteFailed(r) THEN faults + 1 ELSE faults
    /\ op' = [name |-> "apply_patch", new_code |-> new_code, round_num |-> round_num,
              raised |-> r.raised, ret |-> r.ret]
    /\ newest' = IF r.ret.backup_path # NoPath /\ live # NoFile
                 THEN (round_num :> r.ret.backup_path) @@ newest ELSE newest
    /\ UNCHANGED <<now, initial, rolled>>

\* a client calls rollback(round_num)
CallRollback(round_num, latest) ==
    LET r == rollback(FS, round_num, latest) IN
    /\ calls < MaxCalls
    /\ calls' = calls + 1
    /\ live' = r.fs.live
    /\ backups' = r.fs.backups
    /\ op' = [name |-> "rollback", round_num |-> round_num, ret |-> r.ok]
    /\ rolled' = (rolled \/ r.ok)
    /\ UNCHANGED <<now, initial, faults, newest>>


\* ----------------------------------------------------- Orchestrator
\* the configurations explored: a run enables at most one of the optional
\* stages (walk-forward validation, auto-repair), and a run with a stage
\* takes stale_rounds_limit from {0, MaxLimit - 1}
Configs ==
    {c \in [cap : 0..MaxRounds, stale_rounds_limit : 0..MaxLimit,
            enable_walk_forward : BOOLEAN, timerange_oos : BOOLEAN,
            enable_auto_repair : BOOLEAN, repair_max_retries : 1..MaxRetries] :
        /\ (~c.enable_walk_forward => ~c.timerange_oos)
        /\ (~c.enable_auto_repair => c.repair_max_retries = 1)
        /\ ~(c.enable_walk_forward /\ c.enable_auto_repair)
        /\ (c.enable_walk_forward \/ c.enable_auto_repair =>
               c.stale_rounds_limit \in {0, MaxLimit - 1})
        /\ (c.repair_max_retries > 1 => c.stale_rounds_limit = 0)}

ContentOf(f) == IF f = NoFile THEN NoFile ELSE f.content

BaseRecord(n) ==
    [round |-> n, changes_made |-> "", backtest_metrics |-> EmptyMetrics, score |-> 0,
     strategy_version_path |-> NoPath, next_action |-> <<>>, status |-> "failed"]
NoRec == [round |-> 0]

\* what attempt_fix returns, and the record kept of one call of it: the
\* attempt numbers at which the service was asked, the patches apply_patch
\* accepted, and the re-runs made; and of the round in progress: whether
\* apply_patch accepted the round's patch, the evaluation runs of step 5,
\* the metrics handed to the Evaluator at step 6 and the results of the
\* backtests run_walk_forward made
FixReturn(success, attempts, fix_summary, metrics) ==
    [returned |-> TRUE, success |-> success, attempts |-> attempts,
     fix_summary |-> fix_summary, metrics |-> metrics]
NoFix == [calls |-> <<>>, patched |-> <<>>, runs |-> <<>>, ret |-> [returned |-> FALSE],
          accepted |-> FALSE, evals |-> <<>>, scored |-> <<>>, wf |-> <<>>]
NoResponse == [changes_made |-> "", next_action |-> <<>>, fix_summary |-> ""]
Statuses == {"success", "failed", "rolled_back", "overfitting"}

InitOrch ==
    /\ cfg \in Configs
    /\ pc = "loop"
    /\ round_no = 0
    /\ rounds = <<>>
    /\ rec = NoRec
    /\ llm_result = NoResponse
    /\ attempt = 0
    /\ userdata = ContentOf(live)
    /\ history = <<>>
    /\ report_log = NoLog
    /\ begin = ContentOf(live)
    /\ artifacts = <<>>
    /\ fix = NoFix
    /\ mgr = DefaultManager

\* steps 5-6 of a round whose backtest (or repair re-run) gave metrics m
SuccessRecord(base, m, next_action) ==
    [base EXCEPT !.backtest_metrics = m, !.score = calculate_score(m),
                 !.next_action = next_action, !.status = "success"]

\* _run_single_round returns `record'; run_iteration_loop appends it
Recorded(record, liveAfter) ==
    /\ rounds' = Append(rounds, record)
    /\ artifacts' = Append(artifacts, ContentOf(liveAfter))
    /\ rec' = NoRec
    /\ llm_result' = NoResponse
    /\ attempt' = 0
    /\ pc' = IF record.status = "success" /\ cfg.enable_walk_forward THEN "walk" ELSE "term"

\* the bound on the backups of one run; a run with several repair retries
\* lasts one round, which takes a backup per patch it applies
BackupBound ==
    IF cfg.repair_max_retries > 1 THEN 1 + cfg.repair_max_retries
    ELSE IF cfg.enable_auto_repair \/ cfg.enable_walk_forward THEN MaxBackups
    ELSE MaxPlainBackups
WithinBackupBound(bk) == bk = backups \/ Cardinality(DOMAIN backups) < BackupBound

\* for round_num in range(1, cap + 1): step 1, get_current_code
StartRound ==
    /\ pc = "loop"
    /\ round_no < cfg.cap
    /\ round_no' = round_no + 1
    /\ begin' = ContentOf(live)
    /\ IF live = NoFile
       THEN Recorded([BaseRecord(round_no + 1) EXCEPT
                         !.next_action = <<"Cannot read strategy">>], live)
       ELSE /\ rec' = BaseRecord(round_no + 1)
            /\ pc' = "generate"
            /\ UNCHANGED <<rounds, artifacts, llm_result, attempt>>
    /\ UNCHANGED <<fsVars, apiVars, cfg, userdata, history, report_log, fix, mgr>>

\* step 3: generate_strategy_patch raises
GenerateFails ==
    /\ pc = "generate"
    /\ now' = now + 1
    /\ Recorded([rec EXCEPT !.next_action = <<"LLM call failed">>], live)
    /\ UNCHANGED <<live, backups, initial, faults, apiVars, cfg, round_no, userdata, history,
                   report_log, begin, fix, mgr>>

\* steps 3-4b: the service answers resp; apply_patch and the sync to user_data
GeneratePatch(resp, wfail) ==
    LET base == [rec EXCEPT !.changes_made = resp.changes_made]
        r == apply_patch(FS, resp.code_patch, round_no, resp.changes_made, now + 1, wfail)
    IN
    /\ pc = "generate"
    /\ now' = now + 1
    /\ IF IsEmptyText(resp.code_patch) THEN
          /\ Recorded([base EXCEPT !.next_action = <<"LLM returned empty code_patch">>], live)
          /\ UNCHANGED <<live, backups, faults, userdata>>
       ELSE
          /\ WithinBackupBound(r.fs.backups)
          /\ live' = r.fs.live
          /\ backups' = r.fs.backups
          /\ faults' = IF WriteFailed(r) THEN faults + 1 ELSE faults
          /\ IF r.raised THEN
                /\ pc' = "raised"
                /\ UNCHANGED <<rounds, artifacts, rec, llm_result, attempt, userdata>>
             ELSE IF ~r.ret.success THEN
                /\ Recorded([base EXCEPT !.next_action = <<"Patch rejected">>], r.fs.live)
                /\ UNCHANGED userdata
             ELSE
                /\ rec' = [base EXCEPT !.strategy_version_path = r.ret.backup_path]
                /\ llm_result' = [changes_made |-> resp.changes_made,
                                  next_action |-> resp.next_action, fix_summary |-> ""]
                /\ userdata' = ContentOf(r.fs.live)
                /\ pc' = "backtest"
                /\ UNCHANGED <<rounds, artifacts, attempt>>
    /\ fix' = [fix EXCEPT !.accepted = (pc' = "backtest")]
    /\ UNCHANGED <<initial, apiVars, cfg, round_no, history, report_log, begin, mgr>>

\* a step 5 that, without auto-repair, scores whatever the run returned
RunBacktest_lenient(bt) ==
    /\ pc = "backtest"
    /\ IF bt.success \/ ~cfg.enable_auto_repair THEN
          Recorded(SuccessRecord(rec, bt.metrics, llm_result.next_action), live)
       ELSE
          /\ pc' = "repair"
          /\ attempt' = 1
          /\ UNCHANGED <<rounds, artifacts, rec, llm_result>>
    /\ fix' = [fix EXCEPT !.evals = Append(@, bt),
                          !.scored = IF bt.success THEN Append(@, bt.metrics) ELSE @]
    /\ UNCHANGED <<fsVars, apiVars, cfg, round_no, userdata, history, report_log, begin, mgr>>

\* a step 5 that, without auto-repair, rolls the failed round's patch back
RunBacktest_rollback(bt) ==
    LET r == rollback(FS, round_no, CHOOSE p \in RollbackChoices(backups, round_no) : TRUE)
    IN
    /\ pc = "backtest"
    /\ IF bt.success THEN
          /\ Recorded(SuccessRecord(rec, bt.metrics, llm_result.next_action), live)
          /\ UNCHANGED <<live, backups>>
       ELSE IF cfg.enable_auto_repair THEN
          /\ pc' = "repair"
          /\ attempt' = 1
          /\ UNCHANGED <<rounds, artifacts, rec, llm_result, live, backups>>
       ELSE
          /\ Recorded([rec EXCEPT !.next_action = <<"Backtest failed">>], r.fs.live)
          /\ live' = r.fs.live
          /\ backups' = r.fs.backups
    /\ fix' = [fix EXCEPT !.evals = Append(@, bt),
                          !.scored = IF bt.success THEN Append(@, bt.metrics) ELSE @]
    /\ UNCHANGED <<now, initial, faults, apiVars, cfg, round_no, userdata, history,
                   report_log, begin, mgr>>

\* step 5: the evaluation backtest returns bt
RunBacktest(bt) ==
    /\ pc = "backtest"
    /\ IF bt.success THEN
          Recorded(SuccessRecord(rec, bt.metrics, llm_result.next_action), live)
       ELSE IF cfg.enable_auto_repair THEN
          /\ pc' = "repair"
          /\ attempt' = 1
          /\ UNCHANGED <<rounds, artifacts, rec, llm_result>>
       ELSE
          Recorded([rec EXCEPT !.next_action = <<"Backtest failed">>], live)
    /\ fix' = [fix EXCEPT !.evals = Append(@, bt),
                          !.scored = IF bt.success THEN Append(@, bt.metrics) ELSE @]
    /\ UNCHANGED <<fsVars, apiVars, cfg, round_no, userdata, history, report_log, begin, mgr>>

\* an attempt_fix whose loop makes one attempt more than max_retries
RepairCallFails_extra ==
    /\ pc = "repair"
    /\ attempt <= cfg.repair_max_retries + 1
    /\ now' = now + 1
    /\ attempt' = attempt + 1
    /\ fix' = [fix EXCEPT !.calls = Append(@, attempt)]
    /\ UNCHANGED <<live, backups, initial, faults, apiVars, cfg, pc, round_no, rounds, rec,
                   llm_result, userdata, history, report_log, begin, artifacts, mgr>>

\* attempt_fix, one attempt: generate_fix_patch raises
RepairCallFails ==
    /\ pc = "repair"
    /\ attempt <= cfg.repair_max_retries
    /\ now' = now + 1
    /\ attempt' = attempt + 1
    /\ fix' = [fix EXCEPT !.calls = Append(@, attempt)]
    /\ UNCHANGED <<live, backups, initial, faults, apiVars, cfg, pc, round_no, rounds, rec,
                   llm_result, userdata, history, report_log, begin, artifacts, mgr>>

\* an attempt that re-runs the backtest whether or not apply_patch accepted
RepairPatchStep_always(resp, wfail) ==
    LET code == resp.code_patch
        r == apply_patch(FS, code, round_no, RepairDesc(attempt, resp.fix_summary),
                         now + 1, wfail)
    IN
    /\ pc = "repair"
    /\ attempt <= cfg.repair_max_retries
    /\ now' = now + 1
    /\ IF IsEmptyText(code) \/ ~code.parses THEN
          /\ attempt' = attempt + 1
          /\ UNCHANGED <<live, backups, faults, pc, llm_result>>
       ELSE
          /\ WithinBackupBound(r.fs.backups)
          /\ live' = r.fs.live
          /\ backups' = r.fs.backups
          /\ faults' = IF WriteFailed(r) THEN faults + 1 ELSE faults
          /\ IF r.raised THEN
                pc' = "raised" /\ UNCHANGED <<attempt, llm_result>>
             ELSE
                /\ pc' = "rerun"
                /\ llm_result' = [llm_result EXCEPT !.fix_summary = resp.fix_summary]
                /\ UNCHANGED attempt
    /\ fix' = IF pc' = "rerun" /\ r.ret.success
              THEN [fix EXCEPT !.calls = Append(@, attempt),
                               !.patched = Append(@, [attempt |-> attempt, code |-> code])]
              ELSE [fix EXCEPT !.calls = Append(@, attempt)]
    /\ UNCHANGED <<initial, apiVars, cfg, round_no, rounds, rec, userdata, history,
                   report_log, begin, artifacts, mgr>>

\* attempt_fix, one attempt up to apply_patch: the service answers resp
RepairPatchStep(resp, wfail) ==
    LET code == resp.code_patch
        r == apply_patch(FS, code, round_no, RepairDesc(attempt, resp.fix_summary),
                         now + 1, wfail)
    IN
    /\ pc = "repair"
    /\ attempt <= cfg.repair_max_retries
    /\ now' = now + 1
    /\ IF IsEmptyText(code) \/ ~code.parses THEN
          /\ attempt' = attempt + 1
          /\ UNCHANGED <<live, backups, faults, pc, llm_result>>
       ELSE
          /\ WithinBackupBound(r.fs.backups)
          /\ live' = r.fs.live
          /\ backups' = r.fs.backups
          /\ faults' = IF WriteFailed(r) THEN faults + 1 ELSE faults
          /\ IF r.raised THEN
                pc' = "raised" /\ UNCHANGED <<attempt, llm_result>>
             ELSE IF ~r.ret.success THEN
                attempt' = attempt + 1 /\ UNCHANGED <<pc, llm_result>>
             ELSE
                /\ pc' = "rerun"
                /\ llm_result' = [llm_result EXCEPT !.fix_summary = resp.fix_summary]
                /\ UNCHANGED attempt
    /\ fix' = IF pc' = "rerun"
              THEN [fix EXCEPT !.calls = Append(@, attempt),
                               !.patched = Append(@, [attempt |-> attempt, code |-> code])]
              ELSE [fix EXCEPT !.calls = Append(@, attempt)]
    /\ UNCHANGED <<initial, apiVars, cfg, round_no, rounds, rec, userdata, history,
                   report_log, begin, artifacts, mgr>>

\* attempt_fix, step 5 of an attempt: the re-run returns bt
RepairRerun(bt) ==
    /\ pc = "rerun"
    /\ IF bt.success THEN
          Recorded(SuccessRecord(
                       [rec EXCEPT !.changes_made =
                            @ \o " [auto-repaired: " \o llm_result.fix_summary \o "]"],
                       bt.metrics, llm_result.next_action), live)
       ELSE
          /\ pc' = "repair"
          /\ attempt' = attempt + 1
          /\ UNCHANGED <<rounds, artifacts, rec, llm_result>>
    /\ fix' = [fix EXCEPT
                  !.runs = Append(@, [attempt |-> attempt, bt |-> bt]),
                  !.scored = IF bt.success THEN Append(@, bt.metrics) ELSE @,
                  !.ret = IF bt.success
                          THEN FixReturn(TRUE, attempt, llm_result.fix_summary, bt.metrics)
                          ELSE @]
    /\ UNCHANGED <<fsVars, apiVars, cfg, round_no, userdata, history, report_log, begin, mgr>>

\* rollback_on_exhausted that goes back to the backups of round_num itself
rollback_on_exhausted_same(fs, round_num, latest) ==
    LET target_round == round_num
        r == rollback(fs, target_round, latest)
    IN  IF target_round < 1 THEN
            [fs |-> fs, called |-> FALSE,
             ret |-> [rolled_back |-> FALSE, rollback_round |-> 0,
                      status |-> "rollback_failed"]]
        ELSE IF r.ok THEN
            [fs |-> r.fs, called |-> TRUE,
             ret |-> [rolled_back |-> TRUE, rollback_round |-> target_round,
                      status |-> "quarantined"]]
        ELSE
            [fs |-> r.fs, called |-> TRUE,
             ret |-> [rolled_back |-> FALSE, rollback_round |-> target_round,
                      status |-> "rollback_failed"]]

\* rollback_on_exhausted(round_num)
rollback_on_exhausted(fs, round_num, latest) ==
    LET target_round == round_num - 1
        r == rollback(fs, target_round, latest)
    IN  IF target_round < 1 THEN
            [fs |-> fs, called |-> FALSE,
             ret |-> [rolled_back |-> FALSE, rollback_round |-> 0,
                      status |-> "rollback_failed"]]
        ELSE IF r.ok THEN
            [fs |-> r.fs, called |-> TRUE,
             ret |-> [rolled_back |-> TRUE, rollback_round |-> target_round,
                      status |-> "quarantined"]]
        ELSE
            [fs |-> r.fs, called |-> TRUE,
             ret |-> [rolled_back |-> FALSE, rollback_round |-> target_round,
                      status |-> "rollback_failed"]]

\* attempt_fix returns "exhausted"; the round rolls back and is recorded
RepairExhausted(latest) ==
    LET rb == rollback_on_exhausted(FS, round_no, latest) IN
    /\ pc = "repair"
    /\ attempt > cfg.repair_max_retries
    /\ live' = rb.fs.live
    /\ backups' = rb.fs.backups
    /\ Recorded([rec EXCEPT
                    !.next_action = <<"Auto-repair exhausted",
                                      ToString(cfg.repair_max_retries),
                                      "Rolled back", ToString(rb.ret.rolled_back)>>,
                    !.status = "rolled_back"], rb.fs.live)
    /\ fix' = [fix EXCEPT !.ret = FixReturn(FALSE, cfg.repair_max_retries, "exhausted",
                                             EmptyMetrics)]
    /\ UNCHANGED <<now, initial, faults, apiVars, cfg, round_no, userdata, history,
                   report_log, begin, mgr>>

\* a run_walk_forward that passes when the in-sample re-run fails
run_walk_forward_lenient(c, oos_bt, is_bt, down) ==
    IF ~c.timerange_oos THEN [ok |-> TRUE, msg |-> <<"No OOS timerange configured">>]
    ELSE IF ~oos_bt.success THEN [ok |-> FALSE, msg |-> <<"OOS backtest failed">>]
    ELSE IF ~is_bt.success THEN [ok |-> TRUE, msg |-> <<"Walk-forward PASSED">>]
    ELSE compare_is_oos(evaluate(is_bt.metrics).score, evaluate(oos_bt.metrics).score,
                        down)

\* the backtests run_walk_forward makes: none without an out-of-sample
\* timerange, the in-sample re-run only after a successful out-of-sample run
WalkRuns(c, oos_bt, is_bt) ==
    IF ~c.timerange_oos THEN <<>>
    ELSE IF ~oos_bt.success THEN <<oos_bt>>
    ELSE <<oos_bt, is_bt>>

\* run_walk_forward, given what the two backtests return
run_walk_forward(c, oos_bt, is_bt, down) ==
    IF ~c.timerange_oos THEN [ok |-> TRUE, msg |-> <<"No OOS timerange configured">>]
    ELSE IF ~oos_bt.success THEN [ok |-> FALSE, msg |-> <<"OOS backtest failed">>]
    ELSE IF ~is_bt.success THEN [ok |-> FALSE, msg |-> <<"IS backtest failed">>]
    ELSE compare_is_oos(evaluate(is_bt.metrics).score, evaluate(oos_bt.metrics).score,
                        down)

\* the overfitting check of run_iteration_loop on a successful round
WalkForward(oos_bt, is_bt, latest, down) ==
    LET wf == run_walk_forward(cfg, oos_bt, is_bt, down)
        n == Len(rounds)
        r == rollback(FS, round_no - 1, latest)
    IN
    /\ pc = "walk"
    /\ pc' = "term"
    /\ IF wf.ok THEN UNCHANGED <<rounds, live, backups>>
       ELSE /\ rounds' = [rounds EXCEPT ![n].status = "overfitting",
                                        ![n].next_action = wf.msg]
            /\ IF round_no > 1
               THEN live' = r.fs.live /\ backups' = r.fs.backups
               ELSE UNCHANGED <<live, backups>>
    /\ fix' = [fix EXCEPT !.wf = WalkRuns(cfg, oos_bt, is_bt)]
    /\ UNCHANGED <<now, initial, faults, apiVars, cfg, round_no, rec, llm_result,
                   attempt, userdata, history, report_log, begin, artifacts, mgr>>

\* _check_termination without the test that enough rounds succeeded
check_termination_nolen(rs, limit) ==
    LET successful == SelectSeq(rs, LAMBDA r : r.status = "success")
        tail == SliceFrom(successful, -limit)
    IN  IF rs = <<>> THEN FALSE
        ELSE \A i \in 1..(Len(tail) - 1) : tail[i].score >= tail[i + 1].score

\* _check_termination that takes only falling scores for stale
check_termination_strict(rs, limit) ==
    LET successful == SelectSeq(rs, LAMBDA r : r.status = "success")
        tail == SliceFrom(successful, -limit)
    IN  IF rs = <<>> THEN FALSE
        ELSE /\ Len(successful) >= limit
             /\ \A i \in 1..(Len(tail) - 1) : tail[i].score > tail[i + 1].score

\* _check_termination that takes rising scores for stale
check_termination_rising(rs, limit) ==
    LET successful == SelectSeq(rs, LAMBDA r : r.status = "success")
        tail == SliceFrom(successful, -limit)
    IN  IF rs = <<>> THEN FALSE
        ELSE /\ Len(successful) >= limit
             /\ \A i \in 1..(Len(tail) - 1) : tail[i].score <= tail[i + 1].score

\* _check_termination that looks at the last rounds whatever their status
check_termination_anystatus(rs, limit) ==
    LET tail == SliceFrom(rs, -limit)
    IN  IF rs = <<>> THEN FALSE
        ELSE /\ Len(rs) >= limit
             /\ \A i \in 1..(Len(tail) - 1) : tail[i].score >= tail[i + 1].score

\* _check_termination whose window is the last rounds, all of them successful
check_termination_reset(rs, limit) ==
    LET tail == SliceFrom(rs, -limit)
    IN  IF rs = <<>> THEN FALSE
        ELSE /\ Len(rs) >= limit
             /\ \A i \in DOMAIN tail : tail[i].status = "success"
             /\ \A i \in 1..(Len(tail) - 1) : tail[i].score >= tail[i + 1].score

\* _check_termination(rounds)
check_termination(rs, limit) ==
    LET successful == SelectSeq(rs, LAMBDA r : r.status = "success")
        tail == SliceFrom(successful, -limit)
    IN  IF rs = <<>> THEN FALSE
        ELSE /\ Len(successful) >= limit
             /\ \A i \in 1..(Len(tail) - 1) : tail[i].score >= tail[i + 1].score

StopAction == <<"STOP: ", "No improvement in last successful rounds">>

\* a termination check that writes the STOP message into the first record
CheckTermination_first ==
    /\ pc = "term"
    /\ IF check_termination(rounds, cfg.stale_rounds_limit)
       THEN /\ rounds' = [rounds EXCEPT ![1].next_action = StopAction]
            /\ pc' = "settle"
       ELSE /\ pc' = "loop"
            /\ UNCHANGED rounds
    /\ fix' = NoFix
    /\ UNCHANGED <<fsVars, apiVars, cfg, round_no, rec, llm_result, attempt, userdata,
                   history, report_log, begin, artifacts, mgr>>

\* the termination check that ends the loop body
CheckTermination ==
    /\ pc = "term"
    /\ IF check_termination(rounds, cfg.stale_rounds_limit)
       THEN /\ rounds' = [rounds EXCEPT ![Len(rounds)].next_action = StopAction]
            /\ pc' = "settle"
       ELSE /\ pc' = "loop"
            /\ UNCHANGED rounds
    /\ fix' = NoFix
    /\ UNCHANGED <<fsVars, apiVars, cfg, round_no, rec, llm_result, attempt, userdata,
                   history, report_log, begin, artifacts, mgr>>

RECURSIVE SumProfit_all(_)
\* a sum of monthly_net_profit_avg over all records, whatever their status
SumProfit_all(rs) ==
    IF rs = <<>> THEN 0
    ELSE Get(Head(rs).backtest_metrics, "monthly_net_profit_avg", 0)
         + SumProfit_all(Tail(rs))

RECURSIVE SumProfit(_)
\* sum of monthly_net_profit_avg over the records with status success
SumProfit(rs) ==
    IF rs = <<>> THEN 0
    ELSE (IF Head(rs).status = "success"
          THEN Get(Head(rs).backtest_metrics, "monthly_net_profit_avg", 0) ELSE 0)
         + SumProfit(Tail(rs))

WeekId == "W"

\* after the loop: weekly settlement, the iteration log, return rounds
Settle ==
    LET settlement == settle_week(mgr, history, WeekId, SumProfit(rounds)) IN
    /\ pc = "settle" \/ (pc = "loop" /\ round_no >= cfg.cap)
    /\ pc' = "done"
    /\ history' = Append(history, settlement)
    /\ report_log' = save_report(report_log, settlement)
    /\ UNCHANGED <<fsVars, apiVars, cfg, round_no, rounds, rec, llm_result, attempt,
                   userdata, begin, artifacts, fix, mgr>>

Generate == \E resp \in LlmResponses, wfail \in WriteOutcomes : GeneratePatch(resp, wfail)
Backtest == \E bt \in BacktestResults : RunBacktest(bt)
RepairPatch1 == \E resp \in FixResponses, wfail \in WriteOutcomes : RepairPatchStep(resp, wfail)
Rerun == \E bt \in BacktestResults : RepairRerun(bt)
Exhausted == \E latest \in RollbackChoices(backups, round_no - 1) : RepairExhausted(latest)
Walk ==
    \E oos_bt \in BacktestResults, is_bt \in BacktestResults :
        \E latest \in RollbackChoices(backups, round_no - 1),
           down \in QuotientRounding(calculate_score(is_bt.metrics),
                                     calculate_score(oos_bt.metrics)) :
            WalkForward(oos_bt, is_bt, latest, down)

Init == InitFiles /\ InitApi /\ InitOrch
Next ==
    \/ StartRound
    \/ GenerateFails
    \/ Generate
    \/ Backtest
    \/ RepairCallFails
    \/ RepairPatch1
    \/ Rerun
    \/ Exhausted
    \/ Walk
    \/ CheckTermination
    \/ Settle
Spec == Init /\ [][Next]_vars

ApiTick ==
    /\ Tick
    /\ op' = [name |-> "tick"]
    /\ UNCHANGED <<calls, newest, rolled>>
    /\ UNCHANGED orchVars

ApiApplyPatch ==
    /\ \E c \in Candidates, n \in RoundTags, d \in Descs, wfail \in WriteOutcomes :
          CallApplyPatch(c, n, d, wfail)
    /\ UNCHANGED orchVars

ApiRollback ==
    /\ \E n \in RoundTags : \E latest \in RollbackChoices(backups, n) :
          CallRollback(n, latest)
    /\ UNCHANGED orchVars

\* an idle Orchestrator while a client drives the StrategyModifier
InitIdle ==
    /\ cfg = [cap |-> 0, stale_rounds_limit |-> 0, enable_walk_forward |-> FALSE,
              timerange_oos |-> FALSE, enable_auto_repair |-> FALSE,
              repair_max_retries |-> 1]
    /\ pc = "idle"
    /\ round_no = 0
    /\ rounds = <<>>
    /\ rec = NoRec
    /\ llm_result = NoResponse
    /\ attempt = 0
    /\ userdata = ContentOf(live)
    /\ history = <<>>
    /\ report_log = NoLog
    /\ begin = ContentOf(live)
    /\ artifacts = <<>>
    /\ fix = NoFix
    /\ mgr = DefaultManager

InitMod == InitFiles /\ InitApi /\ InitIdle
NextMod ==
    \/ ApiApplyPatch
    \/ ApiRollback
    \/ ApiTick
SpecMod == InitMod /\ [][NextMod]_vars

\* --------------------------- ErrorRecoveryManager used directly
\* round numbers a client passes to rollback_on_exhausted
ExhaustedRounds == 0..3

\* a client calls rollback_on_exhausted(round_num)
CallRollbackOnExhausted(round_num, latest) ==
    LET r == rollback_on_exhausted(FS, round_num, latest) IN
    /\ calls < MaxCalls
    /\ calls' = calls + 1
    /\ live' = r.fs.live
    /\ backups' = r.fs.backups
    /\ op' = [name |-> "rollback_on_exhausted", round_num |-> round_num,
              called |-> r.called, ret |-> r.ret]
    /\ rolled' = (rolled \/ r.ret.rolled_back)
    /\ UNCHANGED <<now, initial, faults, newest>>

RecApplyPatch ==
    /\ \E c \in ValidPatches, n \in RoundTags, d \in Descs :
          CallApplyPatch(c, n, d, FALSE)
    /\ UNCHANGED orchVars

RecRollbackOnExhausted ==
    /\ \E n \in ExhaustedRounds : \E latest \in RollbackChoices(backups, n - 1) :
          CallRollbackOnExhausted(n, latest)
    /\ UNCHANGED orchVars

NextRec ==
    \/ RecApplyPatch
    \/ RecRollbackOnExhausted
    \/ ApiTick
SpecRec == InitMod /\ [][NextRec]_vars

\* ------------------------ WeeklySettlementManager used directly
\* the managers a client builds: the default budget and target with each
\* cooldown threshold, and one whose target lies below minus the budget
Managers ==
    {Manager(WEEKLY_BUDGET, WEEKLY_TARGET, n) : n \in 0..COOLDOWN_THRESHOLD}
        \cup {Manager(WEEKLY_BUDGET, -150, 2)}

\* "2026-W09" and the like
WeekName(k) == "W" \o ToString(k)

\* a manager on a path that holds no report file, beside an idle Orchestrator
InitSettle ==
    /\ InitFiles
    /\ live = NoFile
    /\ InitApi
    /\ cfg = [cap |-> 0, stale_rounds_limit |-> 0, enable_walk_forward |-> FALSE,
              timerange_oos |-> FALSE, enable_auto_repair |-> FALSE,
              repair_max_retries |-> 1]
    /\ pc = "idle"
    /\ round_no = 0
    /\ rounds = <<>>
    /\ rec = NoRec
    /\ llm_result = NoResponse
    /\ attempt = 0
    /\ userdata = NoFile
    /\ history = <<>>
    /\ report_log = NoLog
    /\ begin = NoFile
    /\ artifacts = <<>>
    /\ fix = NoFix
    /\ mgr \in Managers

\* report = settle_week(week_id, weekly_pnl); save_report(report)
SettleAndSave(weekly_pnl) ==
    LET report == settle_week(mgr, history, WeekName(Len(report_log.lines) + 1),
                              weekly_pnl) IN
    /\ Len(report_log.lines) < MaxWeeks
    /\ history' = Append(history, report)
    /\ report_log' = save_report(report_log, report)
    /\ op' = [name |-> "settle_week", weekly_pnl |-> weekly_pnl, ret |-> report]
    /\ UNCHANGED <<fsVars, calls, newest, rolled, cfg, pc, round_no, rounds, rec,
                   llm_result, attempt, userdata, begin, artifacts, fix, mgr>>

\* a fresh WeeklySettlementManager on the same path calls load_history
FreshLoad ==
    /\ history' = load_history(<<>>, report_log)
    /\ op' = [name |-> "load_history"]
    /\ UNCHANGED <<fsVars, calls, newest, rolled, cfg, pc, round_no, rounds, rec,
                   llm_result, attempt, userdata, report_log, begin, artifacts, fix, mgr>>

SettleWeek == \E weekly_pnl \in PnlValues : SettleAndSave(weekly_pnl)

NextSettle ==
    \/ SettleWeek
    \/ FreshLoad
SpecSettle == InitSettle /\ [][NextSettle]_vars

\* ---------------- WeeklySettlementManager, each method called on its own
\* one manager with the default parameters on a path without a report file
InitHist == InitSettle /\ mgr = DefaultManager

\* report = settle_week(week_id, weekly_pnl), not yet saved
CallSettleWeek(weekly_pnl) ==
    LET report == settle_week(mgr, history, WeekId, weekly_pnl) IN
    /\ Len(history) < MaxWeeks
    /\ history' = Append(history, report)
    /\ op' = [name |-> "settle_week", ret |-> report]
    /\ UNCHANGED <<fsVars, calls, newest, rolled, cfg, pc, round_no, rounds, rec,
                   llm_result, attempt, userdata, report_log, begin, artifacts, fix, mgr>>

\* save_report(report), of the report settle_week has just returned
CallSaveReport ==
    /\ op.name = "settle_week"
    /\ Len(report_log.lines) < MaxWeeks
    /\ report_log' = save_report(report_log, op.ret)
    /\ op' = [name |-> "save_report"]
    /\ UNCHANGED <<fsVars, calls, newest, rolled, cfg, pc, round_no, rounds, rec,
                   llm_result, attempt, userdata, history, begin, artifacts, fix, mgr>>

\* load_history() on the manager that made the calls before
CallLoadHistory ==
    /\ history' = load_history(history, report_log)
    /\ op' = [name |-> "load_history"]
    /\ UNCHANGED <<fsVars, calls, newest, rolled, cfg, pc, round_no, rounds, rec,
                   llm_result, attempt, userdata, report_log, begin, artifacts, fix, mgr>>

HistSettleWeek == \E weekly_pnl \in {-50, 1000} : CallSettleWeek(weekly_pnl)

NextHist ==
    \/ HistSettleWeek
    \/ CallSaveReport
    \/ CallLoadHistory
SpecHist == InitHist /\ [][NextHist]_vars

\* ------------------------------- one loop run per week, restarted
\* a backtest result with a monthly loss
MLoss == MetricsOf(-50, 30, 100, 24)

\* one round a run, no optional stage, each cooldown threshold from 1
InitWeeks ==
    /\ InitFiles
    /\ live # NoFile
    /\ InitApi
    /\ cfg = [cap |-> 1, stale_rounds_limit |-> MaxLimit, enable_walk_forward |-> FALSE,
              timerange_oos |-> FALSE, enable_auto_repair |-> FALSE,
              repair_max_retries |-> 1]
    /\ pc = "loop"
    /\ round_no = 0
    /\ rounds = <<>>
    /\ rec = NoRec
    /\ llm_result = NoResponse
    /\ attempt = 0
    /\ userdata = ContentOf(live)
    /\ history = <<>>
    /\ report_log = NoLog
    /\ begin = ContentOf(live)
    /\ artifacts = <<>>
    /\ fix = NoFix
    /\ mgr \in {Manager(WEEKLY_BUDGET, WEEKLY_TARGET, n) : n \in 1..COOLDOWN_THRESHOLD}

WeekGenerate == GeneratePatch(Response(PatchA), FALSE)
WeekBacktest == \E bt \in {BtFail, BtOk(MLoss)} : RunBacktest(bt)

\* the process ends and a new one constructs its Orchestrator from the
\* same configuration: a new WeeklySettlementManager on the same path
Restart ==
    /\ pc = "done"
    /\ Len(report_log.lines) < MaxWeeks
    /\ pc' = "loop"
    /\ round_no' = 0
    /\ rounds' = <<>>
    /\ history' = <<>>
    /\ initial' = live
    /\ begin' = ContentOf(live)
    /\ artifacts' = <<>>
    /\ UNCHANGED <<live, backups, now, faults, apiVars, cfg, rec, llm_result, attempt,
                   userdata, report_log, fix, mgr>>

NextWeeks ==
    \/ StartRound
    \/ WeekGenerate
    \/ WeekBacktest
    \/ CheckTermination
    \/ Settle
    \/ Restart
SpecWeeks == InitWeeks /\ [][NextWeeks]_vars

\* ------------------------------------------ Evaluator used directly
\* metrics around each gate threshold; a record without the gate keys
GateMetrics ==
    [weekly_target_hit_rate : {24, 25, 26}, max_drawdown_pct : {95, 96},
     total_trades : {49, 50}, stake_limit_hit_count : {0, 1},
     monthly_net_profit_avg : {-1, 0, 1}]
        \cup {[max_monthly_loss |-> 100]}

\* metrics for the score: durations below, at and above 0, and none
Durations == {-5, 0, 1, 24, 48}
ScoreMetrics ==
    {MetricsOf(p, h, l, d) : p \in {-50, 10}, h \in {0, 30}, l \in {0, 100},
                             d \in Durations}
        \cup [monthly_net_profit_avg : {-50, 10}, weekly_target_hit_rate : {0, 30}]

\* scores (in hundredths) of the two evaluations compared
Scores == {-10, -5, 0, 3, 5, 6, 7, 10}

CallEvaluate(m) ==
    /\ op' = [name |-> "evaluate", metrics |-> m, ret |-> evaluate(m)]
    /\ UNCHANGED <<fsVars, calls, newest, rolled, orchVars>>

CallCompare(is_score, oos_score, down) ==
    /\ op' = [name |-> "compare_is_oos", is_score |-> is_score,
              oos_score |-> oos_score,
              ret |-> compare_is_oos(is_score, oos_score, down)]
    /\ UNCHANGED <<fsVars, calls, newest, rolled, orchVars>>

EvalEvaluate == \E m \in GateMetrics : CallEvaluate(m)
EvalScore == \E m \in ScoreMetrics : CallEvaluate(m)
EvalCompare ==
    \E is_score \in Scores, oos_score \in Scores :
        \E down \in QuotientRounding(is_score, oos_score) :
            CallCompare(is_score, oos_score, down)

NextEval ==
    \/ EvalEvaluate
    \/ EvalScore
    \/ EvalCompare
SpecEval == InitMod /\ [][NextEval]_vars

\* ------------------------------------ TargetOptimizer used directly
\* metrics below, at and beyond each target, some a hair short or over
\* (800 and 900 hairs of the hit rate are 0.00000008 and 0.00000009)
GapMetrics ==
    [weekly_target_hit_rate : {Num(20, 0), Num(25, 0), Num(30, 0),
                               Num(25, -800), Num(25, -900)},
     monthly_net_profit_avg : {Num(50, 0), Num(100, 0), Num(150, 0), Num(100, -800)},
     max_monthly_loss : {Num(0, 0), Num(200, 0), Num(300, 0), Num(200, 800)},
     max_drawdown_pct : {Num(40, 0), Num(50, 0), Num(60, 0)}]
        \cup {EmptyMetrics}

\* fine_tune_threshold 0, 0.0000001, 0.3 (the default) and 1
GapThresholds == {Zero, Num(0, 8000000), Num(7200, 0), Num(80000, 0)}

CallComputeGap(current, round_num, threshold) ==
    /\ op' = [name |-> "compute_gap", metrics |-> current, threshold |-> threshold,
              ret |-> compute_gap(current, round_num, threshold)]
    /\ UNCHANGED <<fsVars, calls, newest, rolled, orchVars>>

GapCompute ==
    \E current \in GapMetrics, threshold \in GapThresholds :
        CallComputeGap(current, 1, threshold)

NextGap == GapCompute
SpecGap == InitMod /\ [][NextGap]_vars

\* ----------------------------------------- Comparator used directly
WindowSeqs ==
    {w \in UNION {[1..n -> [label : WindowLabels, timerange : Timeranges]] :
                     n \in 0..MaxWindows} :
        \A i, j \in DOMAIN w : i # j => w[i].label # w[j].label}

CallRunMultiWindow(windows, results) ==
    LET r == run_multi_window(windows, results) IN
    /\ op' = [name |-> "run_multi_window", windows |-> windows, results |-> results,
              calls |-> r.calls, ret |-> r.ret]
    /\ UNCHANGED <<fsVars, calls, newest, rolled, orchVars>>

CmpRunMultiWindow ==
    \E windows \in WindowSeqs :
        \E results \in [DOMAIN windows -> {BtFail, BtOk(MPoor), BtOk(MGood)}] :
            CallRunMultiWindow(windows, results)

NextCmp == CmpRunMultiWindow
SpecCmp == InitMod /\ [][NextCmp]_vars

\* ------------------------------------- DeepSeekClient used directly
\* what one POST /chat/completions can come to: a completion, an error
\* status, a timeout, or a 200 answer without choices[0].message.content
Completion(content) == [kind |-> "ok", content |-> content]
ErrorStatus(code) == [kind |-> "status", status_code |-> code]
Timeout == [kind |-> "timeout"]
Malformed == [kind |-> "malformed"]
HttpOutcomes ==
    {Completion("a"), Completion("b"), ErrorStatus(404), ErrorStatus(429),
     ErrorStatus(500), Timeout, Malformed}

\* the outcomes after which _complete goes on to the next attempt
Retried(outcome) ==
    \/ outcome.kind = "status" /\ (outcome.status_code = 429 \/ outcome.status_code >= 500)
    \/ outcome.kind = "timeout"

\* wait = min(2**attempt, 30)
Backoff(n) == IF 2 ^ n < 30 THEN 2 ^ n ELSE 30

ChatRunning == op.name = "chat" /\ op.status = "running"

\* chat(): _complete starts its loop at attempt 1
ChatStart(max_retries) ==
    /\ ~ChatRunning
    /\ op' = [name |-> "chat", max_retries |-> max_retries, attempt |-> 1,
              outcomes |-> <<>>, waits |-> <<>>, status |-> "running",
              content |-> "", error |-> ""]
    /\ UNCHANGED <<fsVars, calls, newest, rolled, orchVars>>

\* a _complete that retries after every error status
ChatRequest_retry_all(outcome) ==
    /\ ChatRunning
    /\ op.attempt <= op.max_retries
    /\ op' = IF outcome.kind = "ok" THEN
                 [op EXCEPT !.outcomes = Append(@, outcome), !.status = "returned",
                            !.content = outcome.content]
             ELSE IF outcome.kind = "malformed" THEN
                 [op EXCEPT !.outcomes = Append(@, outcome), !.status = "raised",
                            !.error = "KeyError"]
             ELSE IF outcome.kind = "status" THEN
                 [op EXCEPT !.outcomes = Append(@, outcome),
                            !.waits = Append(@, Backoff(op.attempt)),
                            !.attempt = @ + 1]
             ELSE IF op.attempt = op.max_retries THEN
                 [op EXCEPT !.outcomes = Append(@, outcome), !.status = "raised",
                            !.error = "TimeoutException"]
             ELSE
                 [op EXCEPT !.outcomes = Append(@, outcome), !.attempt = @ + 1]
    /\ UNCHANGED <<fsVars, calls, newest, rolled, orchVars>>

\* _complete, one pass of the loop: the request comes to `outcome'
ChatRequest(outcome) ==
    /\ ChatRunning
    /\ op.attempt <= op.max_retries
    /\ op' = IF outcome.kind = "ok" THEN
                 [op EXCEPT !.outcomes = Append(@, outcome), !.status = "returned",
                            !.content = outcome.content]
             ELSE IF outcome.kind = "malformed" THEN
                 [op EXCEPT !.outcomes = Append(@, outcome), !.status = "raised",
                            !.error = "KeyError"]
             ELSE IF outcome.kind = "status" THEN
                 IF outcome.status_code = 429 \/ outcome.status_code >= 500 THEN
                     [op EXCEPT !.outcomes = Append(@, outcome),
                                !.waits = Append(@, Backoff(op.attempt)),
                                !.attempt = @ + 1]
                 ELSE
                     [op EXCEPT !.outcomes = Append(@, outcome), !.status = "raised",
                                !.error = "HTTPStatusError"]
             ELSE IF op.attempt = op.max_retries THEN
                 [op EXCEPT !.outcomes = Append(@, outcome), !.status = "raised",
                            !.error = "TimeoutException"]
             ELSE
                 [op EXCEPT !.outcomes = Append(@, outcome), !.attempt = @ + 1]
    /\ UNCHANGED <<fsVars, calls, newest, rolled, orchVars>>

\* _complete after the loop: raise RuntimeError
ChatExhausted ==
    /\ ChatRunning
    /\ op.attempt > op.max_retries
    /\ op' = [op EXCEPT !.status = "raised", !.error = "RuntimeError"]
    /\ UNCHANGED <<fsVars, calls, newest, rolled, orchVars>>

ChatBegin == \E max_retries \in 0..MaxAttempts : ChatStart(max_retries)
ChatPost == \E outcome \in HttpOutcomes : ChatRequest(outcome)

NextChat ==
    \/ ChatBegin
    \/ ChatPost
    \/ ChatExhausted
SpecChat == InitMod /\ [][NextChat]_vars

\* ------------------------------------- BacktestRunner used directly
Processes ==
    {Exited(rc, err) : rc \in {0, 1, -9}, err \in {"", "Error: strategy not found"}}
        \cup {TimedOut, Raised("freqtrade not found"), Raised("")}
Loads ==
    {Loaded(MPoor), Loaded(MGood), LoadFails("Expecting value"), LoadFails("")}

CallRun(process, found, load) ==
    /\ op' = [name |-> "run", process |-> process, found |-> found, load |-> load,
              ret |-> run(process, found, load)]
    /\ UNCHANGED <<fsVars, calls, newest, rolled, orchVars>>

RunBacktestRunner ==
    \E process \in Processes, found \in BOOLEAN, load \in Loads :
        CallRun(process, found, load)

NextRun == RunBacktestRunner
SpecRun == InitMod /\ [][NextRun]_vars

\* -------------------------- classify_error used directly
\* error logs: two pieces, joined with or without a blank between them
LogPieces ==
    {<<"S", "y", "n", "t", "a", "x", "E", "r", "r", "o", "r">>,
     <<"i", "n", "d", "e", "n", "t", "a", "t", "i", "o", "n", "e", "r", "r", "o", "r">>,
     <<"K", "e", "y", "E", "r", "r", "o", "r">>,
     <<"T", "y", "p", "e", "E", "r", "r", "o", "r">>,
     <<"c", "o", "n", "f", "i", "g">>,
     <<"J", "S", "O", "N">>,
     <<"d", "a", "t", "a">>,
     <<"m", "e", "t", "a">>,
     <<"_", "d", "i", "r">>,
     <<"d", "o", "w", "n", "l", "o", "a", "d">>,
     <<"p", "a", "i", "r", "s">>,
     <<>>}
Joints == {<<>>, <<" ">>}
ErrorLogs == {a \o j \o b : a \in LogPieces, j \in Joints, b \in LogPieces}

CallClassifyError(error_log) ==
    /\ op' = [name |-> "classify_error", error_log |-> error_log,
              ret |-> classify_error(error_log)]
    /\ UNCHANGED <<fsVars, calls, newest, rolled, orchVars>>

ClassifyError == \E error_log \in ErrorLogs : CallClassifyError(error_log)

NextClassify == ClassifyError
SpecClassify == InitMod /\ [][NextClassify]_vars

\* ------------------------------------------------------------ claims
\* a text that passes the syntax check and every safety rule
Sound(code) ==
    /\ code.parses
    /\ AllSyms \subseteq code.syms
    /\ \A i \in DOMAIN code.lev : code.lev[i] <= MAX_LEVERAGE
    /\ \A i \in DOMAIN code.sl : code.sl[i] >= MIN_STOPLOSS

\* a text with one of the defects apply_patch rejects
Defective(code) == ~Sound(code)

LastRound == rounds[Len(rounds)]
IsStop(next_action) == next_action # <<>> /\ next_action[1] = "STOP: "

\* C1: the live artifact is always the initial artifact or a text that
\* passes the syntax check and the safety check (symbols present, leverage
\* at most 20, stoploss at least -0.98), never a rejected candidate.
C1_LiveIsSound ==
    \/ live = NoFile
    \/ ContentOf(live) = ContentOf(initial)
    \/ Sound(live.content)

\* C1 witness: a round's patch was rejected after an earlier round's patch
\* was accepted, and the live artifact is the accepted patch.
C1_Witness ==
    /\ rounds # <<>>
    /\ LastRound.next_action = <<"Patch rejected">>
    /\ faults = 0
    /\ live # NoFile
    /\ live.content \in ValidPatches

\* C2 as stated: whenever apply_patch returns success, backup_path is
\* non-empty, the backup file exists and holds the live content from
\* before the call, and the live artifact holds new_code.
C2_Original ==
    [][(op'.name = "apply_patch" /\ ~op'.raised /\ op'.ret.success) =>
          /\ op'.ret.backup_path # NoPath
          /\ op'.ret.backup_path \in DOMAIN backups'
          /\ backups'[op'.ret.backup_path].content = ContentOf(live)
          /\ ContentOf(live') = op'.new_code]_vars

\* C2 amended: whenever apply_patch returns success, backup_path is
\* non-empty and the live artifact holds new_code; if the live artifact
\* existed before the call, the backup file exists and holds the live
\* content from before the call.
C2_Amended ==
    [][(op'.name = "apply_patch" /\ ~op'.raised /\ op'.ret.success) =>
          /\ op'.ret.backup_path # NoPath
          /\ ContentOf(live') = op'.new_code
          /\ live # NoFile =>
                /\ op'.ret.backup_path \in DOMAIN backups'
                /\ backups'[op'.ret.backup_path].content = live.content]_vars

\* C2 witness: an accepted patch replaced an existing artifact, whose
\* content is in the backup that the call names.
C2_Witness ==
    /\ op.name = "apply_patch"
    /\ op.ret.success
    /\ op.ret.backup_path \in DOMAIN backups
    /\ live.content = op.new_code
    /\ backups[op.ret.backup_path].content # live.content

\* C3 as stated: every overwrite of the live artifact, by apply_patch and
\* by rollback alike, leaves the replaced content in the backup directory.
C3_Original ==
    [][(live # NoFile /\ ContentOf(live') # ContentOf(live)) =>
          \E p \in DOMAIN backups' : backups'[p].content = live.content]_vars

\* C4: when apply_patch rejects a candidate with a syntax error, a missing
\* required symbol, a leverage above the cap or a stoploss below the
\* floor, it returns success = false, an empty backup_path and at least
\* one error, and the live artifact and the backups are unchanged.
C4_RejectLeavesAll ==
    [][(op'.name = "apply_patch" /\ ~op'.raised /\ Defective(op'.new_code)) =>
          /\ ~op'.ret.success
          /\ op'.ret.backup_path = NoPath
          /\ op'.ret.errors # <<>>
          /\ live' = live
          /\ backups' = backups]_vars

\* C4 witness: a candidate above the leverage cap was rejected while
\* backups of earlier patches existed.
C4_Witness ==
    /\ op.name = "apply_patch"
    /\ op.new_code = HighLev
    /\ ~op.raised
    /\ ~op.ret.success
    /\ DOMAIN backups # {}
    /\ live # NoFile
    /\ live.content \in ValidPatches

\* C5 as stated: after accepted patches only, rollback(N) returns true
\* exactly when a backup tagged N exists, and then the live artifact holds
\* the content of the backup written last under tag N; when it returns
\* false the live artifact is unchanged.
C5_Original ==
    [][(op'.name = "rollback" /\ ~rolled) =>
          /\ op'.ret = (Tagged(backups, op'.round_num) # {})
          /\ op'.ret => ContentOf(live') = backups[newest[op'.round_num]].content
          /\ ~op'.ret => live' = live]_vars

\* the artifact the last good round left: the one produced by the most
\* recent round before the last with status success, else the initial one
LastGood ==
    LET good == {i \in 1..(Len(rounds) - 1) : rounds[i].status = "success"} IN
    IF good = {} THEN ContentOf(initial)
    ELSE artifacts[CHOOSE i \in good : \A j \in good : j <= i]

\* C6 as stated: a round whose backtest failed and whose auto-repair is
\* exhausted is recorded rolled_back, and after it the live artifact is
\* the one the most recent earlier successful round produced (the initial
\* artifact if there is none).
C6_Original ==
    (pc = "term" /\ LastRound.next_action # <<>>
                 /\ LastRound.next_action[1] = "Auto-repair exhausted") =>
        /\ LastRound.status = "rolled_back"
        /\ ContentOf(live) = LastGood

\* C7 as stated: after a round that walk-forward validation turned into
\* overfitting, the live artifact is the version that was live when the
\* round began.
C7_Original ==
    (pc = "term" /\ LastRound.status = "overfitting") => ContentOf(live) = begin

\* C8 as stated: the loop returns one record per executed round, at most
\* cap records, the i-th with round = i, a status among success, failed,
\* rolled_back and overfitting, and a non-empty next_action.
C8_Original ==
    pc = "done" =>
        /\ Len(rounds) <= cfg.cap
        /\ Len(rounds) = round_no
        /\ \A i \in DOMAIN rounds :
              /\ rounds[i].round = i
              /\ rounds[i].status \in Statuses
              /\ rounds[i].next_action # <<>>

\* what a round notes when no candidate came to a passing backtest
FailureNotes ==
    {<<"LLM call failed">>, <<"LLM returned empty code_patch">>, <<"Patch rejected">>,
     <<"Backtest failed">>}

Successes(rs) == {i \in DOMAIN rs : rs[i].status = "success"}
Recent(rs, L) ==
    {i \in Successes(rs) : Cardinality({j \in Successes(rs) : j > i}) < L}
Stale(rs, L) ==
    /\ Cardinality(Successes(rs)) >= L
    /\ \A i, j \in Recent(rs, L) : i < j => rs[i].score >= rs[j].score

\* C10: with stale_rounds_limit L >= 1 the loop stops right after round k,
\* the last record's next_action starting with STOP, exactly when at least
\* L rounds have status success and the scores of the L most recent
\* successful rounds are non-increasing; after stopping no round runs.
C10_StopsWhenStale ==
    [][/\ (pc = "term" /\ cfg.stale_rounds_limit >= 1) =>
             IF Stale(rounds, cfg.stale_rounds_limit)
             THEN /\ pc' = "settle"
                  /\ Len(rounds') = Len(rounds)
                  /\ IsStop(rounds'[Len(rounds')].next_action)
             ELSE /\ pc' = "loop"
                  /\ rounds' = rounds
       /\ pc \in {"settle", "done"} =>
             /\ rounds' = rounds
             /\ round_no' = round_no
             /\ pc' \in {"settle", "done"}]_vars

\* C10 witness: L = 3, three rounds succeeded with one score, and the loop
\* returned those three records, the last one saying STOP.
C10_Witness ==
    /\ pc = "done"
    /\ cfg.stale_rounds_limit = 3
    /\ Len(rounds) = 3
    /\ \A i \in DOMAIN rounds :
          rounds[i].status = "success" /\ rounds[i].score = rounds[1].score
    /\ IsStop(LastRound.next_action)

\* every round so far succeeded with a score above the one before it
AllImproving(rs) ==
    /\ \A i \in DOMAIN rs : rs[i].status = "success"
    /\ \A i \in 1..(Len(rs) - 1) : rs[i].score < rs[i + 1].score

C13_RollbackOnExhausted ==
    [][op'.name = "rollback_on_exhausted" =>
          LET n == op'.round_num
              found == n > 1 /\ Tagged(backups, n - 1) # {}
          IN  /\ (/\ op'.ret.status = "quarantined"
                  /\ op'.ret.rolled_back
                  /\ op'.ret.rollback_round = n - 1) <=> found
              /\ found => /\ op'.called
                          /\ \E p \in Tagged(backups, n - 1) :
                                live' = backups[p]
              /\ n <= 1 => /\ op'.ret.status = "rollback_failed"
                           /\ ~op'.ret.rolled_back
                           /\ ~op'.called
                           /\ live' = live
              /\ (n > 1 /\ ~found) => /\ op'.ret.status = "rollback_failed"
                                       /\ ~op'.ret.rolled_back
                                       /\ op'.called
                                       /\ live' = live
              /\ backups' = backups]_vars

\* C13 witness: after a patch tagged round 1 replaced the initial artifact,
\* rollback_on_exhausted(2) reported quarantined with rollback_round = 1
\* and the initial artifact is live again.
C13_Witness ==
    /\ op.name = "rollback_on_exhausted"
    /\ op.round_num = 2
    /\ op.ret.status = "quarantined"
    /\ op.ret.rolled_back
    /\ op.ret.rollback_round = 1
    /\ live # NoFile
    /\ live.content = InitialCode

\* the status the three-way priority rule gives a weekly pnl
StatusOf(m, weekly_pnl) ==
    IF weekly_pnl >= m.weekly_target THEN "TARGET_HIT"
    ELSE IF weekly_pnl <= -m.weekly_budget THEN "BUDGET_EXHAUSTED"
    ELSE "WEEK_END_SETTLED"

\* C14: every settled week has exactly one of the three statuses, by
\* priority: TARGET_HIT iff pnl >= target; else BUDGET_EXHAUSTED iff
\* pnl <= -budget; else WEEK_END_SETTLED.  A pnl meeting both the target
\* and the budget-exhaustion condition is TARGET_HIT.
C14_StatusByPriority ==
    \A i \in DOMAIN history :
        LET r == history[i] IN
        /\ r.status \in {"TARGET_HIT", "BUDGET_EXHAUSTED", "WEEK_END_SETTLED"}
        /\ r.status = StatusOf(mgr, r.weekly_pnl)
        /\ r.status = "TARGET_HIT" <=> r.weekly_pnl >= mgr.weekly_target
        /\ r.status = "BUDGET_EXHAUSTED" <=>
              (r.weekly_pnl < mgr.weekly_target /\ r.weekly_pnl <= -mgr.weekly_budget)
        /\ r.status = "WEEK_END_SETTLED" <=>
              (r.weekly_pnl < mgr.weekly_target /\ r.weekly_pnl > -mgr.weekly_budget)
        /\ r.reached_target = (r.weekly_pnl >= mgr.weekly_target)
        /\ r.exhausted_budget = (r.weekly_pnl <= -mgr.weekly_budget)
        /\ (r.reached_target /\ r.exhausted_budget) => r.status = "TARGET_HIT"

\* C14 witness: a week whose pnl met the target and exhausted the budget
\* was settled TARGET_HIT, after a BUDGET_EXHAUSTED week.
C14_Witness ==
    /\ op.name = "settle_week"
    /\ op.ret.reached_target
    /\ op.ret.exhausted_budget
    /\ op.ret.status = "TARGET_HIT"
    /\ Len(history) = 2
    /\ history[1].status = "BUDGET_EXHAUSTED"
    /\ history[2] = op.ret

\* a week that counts toward the cooldown streak
Losing(r) == r.status # "TARGET_HIT" /\ r.weekly_pnl < 0

\* the weeks i - n + 1 .. i of the history are all losing weeks
Streak(hist, i, n) == i >= n /\ \A j \in (i - n + 1)..i : Losing(hist[j])

\* C15 as stated: a settlement reports cooldown_triggered exactly when,
\* counting the week settled, at least N = cooldown_threshold weeks are in
\* the history and each of the N most recent is a losing week.
C15_Original ==
    \A i \in DOMAIN history :
        history[i].cooldown_triggered <=> Streak(history, i, mgr.cooldown_threshold)

\* C15 amended: with a cooldown threshold N >= 1, a settlement reports
\* cooldown_triggered exactly when, counting the week settled, at least N
\* weeks are in the history and each of the N most recent is a losing week.
C15_Amended ==
    mgr.cooldown_threshold >= 1 =>
        \A i \in DOMAIN history :
            history[i].cooldown_triggered <=> Streak(history, i, mgr.cooldown_threshold)

\* C15 witness: N = 3; the first three weeks lost and the third triggered
\* the cooldown, the fourth week broke even and did not.
C15_Witness ==
    /\ mgr.cooldown_threshold = 3
    /\ Len(history) = 4
    /\ \A i \in 1..3 : Losing(history[i])
    /\ ~history[2].cooldown_triggered
    /\ history[3].cooldown_triggered
    /\ history[4].weekly_pnl = 0
    /\ ~history[4].cooldown_triggered

\* C16: in every report action_next_week is cooldown_dryrun when
\* cooldown_triggered and reset_budget_100 otherwise, whatever the status;
\* a week with non-negative pnl always yields reset_budget_100.
C16_ActionNextWeek ==
    \A i \in DOMAIN history :
        LET r == history[i] IN
        /\ r.action_next_week =
              IF r.cooldown_triggered THEN "cooldown_dryrun" ELSE "reset_budget_100"
        /\ r.weekly_pnl >= 0 => r.action_next_week = "reset_budget_100"

\* C16 witness: a BUDGET_EXHAUSTED week went to cooldown_dryrun, and the
\* break-even week after it, the third below target, to reset_budget_100.
C16_Witness ==
    /\ Len(history) = 3
    /\ history[2].status = "BUDGET_EXHAUSTED"
    /\ history[2].action_next_week = "cooldown_dryrun"
    /\ history[3].status = "WEEK_END_SETTLED"
    /\ history[3].weekly_pnl = 0
    /\ history[3].action_next_week = "reset_budget_100"

\* C18: a fresh manager that calls load_history on the path where every
\* settled report was saved holds the same reports in the same order as
\* the manager before it; on a missing file its history is empty.
C18_LoadRestoresHistory ==
    [][op'.name = "load_history" =>
          /\ history' = history
          /\ ~report_log.exists => history' = <<>>]_vars

\* C18 witness: three weeks with different results were settled and
\* saved, and a fresh manager has loaded them.
C18_Witness ==
    /\ op.name = "load_history"
    /\ Len(history) = 3
    /\ history[1].weekly_pnl = -50
    /\ history[2].weekly_pnl = 1000
    /\ history[3].cooldown_triggered

\* the reports on the settlement log, as load_history reads them
Saved == MapSeq(report_log.lines, loads)

\* C17 as stated: weeks settled and saved by earlier runs count toward a
\* later run's cooldown decision: when the N most recent weeks on the
\* settlement log, the one just settled included, are all losing weeks,
\* the report just settled has cooldown_triggered.
C17_Original ==
    (pc = "done" /\ Streak(Saved, Len(Saved), mgr.cooldown_threshold)) =>
        Saved[Len(Saved)].cooldown_triggered

\* the gate checks in the order _gate_check makes them, and the metrics
\* that violate one (a missing metric counts as 0)
GateOrder ==
    <<"weekly_target_hit_rate", "max_drawdown_pct", "total_trades",
      "stake_limit_hit_count", "monthly_net_profit_avg">>
Violates(m, k) ==
    LET v == Get(m, k, 0) IN
    CASE k = "weekly_target_hit_rate" -> ~(v >= HIT_RATE_MIN)
      [] k = "max_drawdown_pct" -> ~(v <= MAX_DRAWDOWN_MAX)
      [] k = "total_trades" -> ~(v >= TOTAL_TRADES_MIN)
      [] k = "stake_limit_hit_count" -> ~(v <= STAKE_LIMIT_HITS_MAX)
      [] k = "monthly_net_profit_avg" -> ~(v > MONTHLY_PROFIT_MIN)

\* C19: evaluate(metrics).passed is true iff gate_failures is empty, iff
\* hit rate >= its minimum, drawdown <= its maximum, trades >= their
\* minimum, stake-limit hits <= their maximum and the monthly average
\* profit is strictly above its minimum; gate_failures holds exactly one
\* entry per violated check, in that order.
C19_GatePassed ==
    op.name = "evaluate" =>
        /\ op.ret.passed <=> op.ret.gate_failures = <<>>
        /\ op.ret.passed <=> \A i \in DOMAIN GateOrder : ~Violates(op.metrics, GateOrder[i])
        /\ op.ret.gate_failures =
              SelectSeq(GateOrder, LAMBDA k : Violates(op.metrics, k))

\* C19 witness: metrics that sit on every threshold but have a monthly
\* average profit of exactly the minimum failed that one check.
C19_Witness ==
    /\ op.name = "evaluate"
    /\ "weekly_target_hit_rate" \in DOMAIN op.metrics
    /\ op.metrics.weekly_target_hit_rate = HIT_RATE_MIN
    /\ op.metrics.max_drawdown_pct = MAX_DRAWDOWN_MAX
    /\ op.metrics.total_trades = TOTAL_TRADES_MIN
    /\ op.metrics.stake_limit_hit_count = STAKE_LIMIT_HITS_MAX
    /\ op.metrics.monthly_net_profit_avg = MONTHLY_PROFIT_MIN
    /\ ~op.ret.passed
    /\ op.ret.gate_failures = <<"monthly_net_profit_avg">>

\* C20 as stated: compare_is_oos returns invalid when the in-sample score
\* is 0; for every non-zero in-sample score it returns valid iff
\* oos.score / is.score is at least the threshold 0.6.
C20_Original ==
    op.name = "compare_is_oos" =>
        IF op.is_score = 0 THEN ~op.ret.ok
        ELSE op.ret.ok <=>
                IF op.is_score > 0
                THEN 100 * op.oos_score >= OOS_SCORE_RATIO_MIN * op.is_score
                ELSE 100 * op.oos_score <= OOS_SCORE_RATIO_MIN * op.is_score

\* C20 amended: compare_is_oos returns invalid when the in-sample score is
\* 0 or negative; for a positive in-sample score it returns valid when
\* oos.score / is.score is above the threshold 0.6 and invalid when it is
\* below (at exactly the threshold the rounding of the quotient decides).
C20_Amended ==
    op.name = "compare_is_oos" =>
        /\ op.is_score <= 0 => ~op.ret.ok
        /\ (op.is_score > 0 /\ 100 * op.oos_score > OOS_SCORE_RATIO_MIN * op.is_score)
              => op.ret.ok
        /\ (op.is_score > 0 /\ 100 * op.oos_score < OOS_SCORE_RATIO_MIN * op.is_score)
              => ~op.ret.ok

\* C20 witness: an in-sample score of 0.10 against an out-of-sample score
\* of 0.07 was found valid.
C20_Witness ==
    /\ op.name = "compare_is_oos"
    /\ op.is_score = 10
    /\ op.oos_score = 7
    /\ op.ret.ok

\* C21: an evaluation of metrics whose avg_trade_duration_hours is <= 0
\* gives the score of the same metrics with a duration of 24 hours, and
\* the duration the score divides by is never 0.
C21_FallbackDuration ==
    op.name = "evaluate" =>
        /\ avg_duration(op.metrics) > 0
        /\ ("avg_trade_duration_hours" \in DOMAIN op.metrics
                /\ op.metrics.avg_trade_duration_hours <= 0 =>
              op.ret.score =
                  evaluate([op.metrics EXCEPT
                               !.avg_trade_duration_hours = FALLBACK_DURATION]).score)

\* C21 witness: metrics with a duration of -5 hours were evaluated and got
\* the score 13.42 of the same metrics with 24 hours.
C21_Witness ==
    /\ op.name = "evaluate"
    /\ op.metrics = MetricsOf(10, 30, 0, -5)
    /\ op.ret.score = calculate_score(MetricsOf(10, 30, 0, 24))
    /\ op.ret.score = 1342

\* every metric of the profile is at or beyond its target
AllMet(current) ==
    \A key \in DOMAIN DEFAULT_TARGET_PROFILE : ~Positive(compute_deltas(current)[key])

\* the deltas with those that meet the target set to 0
Shortfalls(deltas) ==
    [key \in DOMAIN deltas |-> IF Positive(deltas[key]) THEN deltas[key] ELSE Zero]

\* C22 as stated: weighted_norm is >= 0, is the norm of the positive
\* deltas alone, is 0 exactly when every metric is at or beyond its
\* target, and the mode is then fine_tune for any positive threshold.
C22_Original ==
    op.name = "compute_gap" =>
        LET deltas == compute_deltas(op.metrics) IN
        /\ ~Less(op.ret.weighted_norm, Zero)
        /\ weighted_norm(deltas, 1) = weighted_norm_all(Shortfalls(deltas), 1)
        /\ (op.ret.weighted_norm = Zero <=> AllMet(op.metrics))
        /\ (AllMet(op.metrics) /\ Positive(op.threshold) => op.ret.mode = "fine_tune")

\* C22 amended: weighted_norm is >= 0 and is the norm of the positive
\* deltas alone; when every metric is at or beyond its target it is 0 and
\* the mode is fine_tune for any positive threshold; it is 0 also when the
\* norm of the shortfalls is below 0.0000005, and only then.
C22_Amended ==
    op.name = "compute_gap" =>
        LET deltas == compute_deltas(op.metrics) IN
        /\ ~Less(op.ret.weighted_norm, Zero)
        /\ weighted_norm(deltas, 1) = weighted_norm_all(Shortfalls(deltas), 1)
        /\ (AllMet(op.metrics) => op.ret.weighted_norm = Zero)
        /\ (op.ret.weighted_norm = Zero <=>
              Less(weighted_norm_all(Shortfalls(deltas), 1), ROUND_HALF))
        /\ (AllMet(op.metrics) /\ Positive(op.threshold) => op.ret.mode = "fine_tune")

\* C22 witness: profit and loss beyond their targets, hit rate and
\* drawdown at theirs: weighted_norm 0 and fine_tune with threshold 0.3.
C22_Witness ==
    /\ op.name = "compute_gap"
    /\ op.metrics = [weekly_target_hit_rate |-> Num(25, 0),
                     monthly_net_profit_avg |-> Num(150, 0),
                     max_monthly_loss |-> Num(0, 0), max_drawdown_pct |-> Num(50, 0)]
    /\ op.threshold = Num(7200, 0)
    /\ op.ret.weighted_norm = Zero
    /\ op.ret.mode = "fine_tune"

\* C23: run_multi_window calls the runner once per window, in order and
\* with the window's timerange, and returns an entry for every label: the
\* metrics of the window's run if it succeeded, an empty map if it failed.
C23_OncePerWindow ==
    op.name = "run_multi_window" =>
        /\ Len(op.calls) = Len(op.windows)
        /\ DOMAIN op.ret.metrics_by_window = LabelsOf(op.windows)
        /\ \A i \in DOMAIN op.windows :
              /\ op.calls[i] = op.windows[i].timerange
              /\ op.ret.metrics_by_window[op.windows[i].label] =
                    IF op.results[i].success THEN op.results[i].metrics
                    ELSE EmptyMetrics

\* C23 witness: three windows, the second failed: three runner calls, an
\* empty map for the second label and the metrics of the third run for the
\* third.
C23_Witness ==
    /\ op.name = "run_multi_window"
    /\ Len(op.windows) = 3
    /\ Len(op.calls) = 3
    /\ op.results[1].success
    /\ ~op.results[2].success
    /\ op.results[3] = BtOk(MGood)
    /\ op.ret.metrics_by_window[op.windows[2].label] = EmptyMetrics
    /\ op.ret.metrics_by_window[op.windows[3].label] = MGood

\* C24: a chat call makes at most max_retries requests, each one after a
\* 429, a 5xx or a timeout; it returns only the content of a request that
\* succeeded, is still going on after a 429, a 5xx or a timeout while
\* attempts remain, has raised at once after any other 4xx, and never
\* returns after max_retries failed requests.
C24_BoundedRetries ==
    op.name = "chat" =>
        LET n == Len(op.outcomes) IN
        /\ n <= op.max_retries
        /\ \A i \in 1..(n - 1) : Retried(op.outcomes[i])
        /\ (op.status = "returned" =>
              /\ n >= 1
              /\ op.outcomes[n].kind = "ok"
              /\ op.content = op.outcomes[n].content)
        /\ (n >= 1 /\ Retried(op.outcomes[n]) /\ n < op.max_retries =>
              op.status = "running" /\ op.attempt = n + 1)
        /\ (n >= 1 /\ op.outcomes[n].kind = "status" /\ ~Retried(op.outcomes[n]) =>
              op.status = "raised" /\ op.error = "HTTPStatusError")
        /\ (n = op.max_retries /\ (\A i \in 1..n : Retried(op.outcomes[i])) =>
              /\ op.status # "returned"
              /\ (op.status = "running" => ENABLED ChatExhausted))

\* C24 witness: with max_retries 3, a 429 and a timeout were followed by a
\* third request whose content was returned.
C24_Witness ==
    /\ op.name = "chat"
    /\ op.max_retries = 3
    /\ op.outcomes = <<ErrorStatus(429), Timeout, Completion("b")>>
    /\ op.status = "returned"
    /\ op.content = "b"

\* the process exited with code 0 and a result file was found and loaded
RanAndLoaded(o) ==
    /\ o.process.kind = "exit"
    /\ o.process.returncode = 0
    /\ o.found
    /\ o.load.ok

\* C25 as stated: run returns success = true only when the process exited
\* with code 0 and a result file was found and loaded; every other run
\* returns success = false with a non-empty error and empty metrics.
C25_Original ==
    op.name = "run" =>
        /\ (op.ret.success <=> RanAndLoaded(op))
        /\ (~RanAndLoaded(op) =>
              /\ op.ret.error # ""
              /\ op.ret.metrics = EmptyMetrics)

\* C26: classify_error answers syntax if the log matches a syntax
\* indicator, else runtime if it matches a runtime-exception indicator,
\* else config if it matches a configuration keyword, else data if it
\* matches a data keyword, else unknown.
C26_Precedence ==
    op.name = "classify_error" =>
        LET log == op.error_log IN
        /\ op.ret \in {"syntax", "runtime", "config", "data", "unknown"}
        /\ (op.ret = "syntax" <=> MatchesSyntax(log))
        /\ (op.ret = "runtime" <=> ~MatchesSyntax(log) /\ MatchesRuntime(log))
        /\ (op.ret = "config" <=>
              ~MatchesSyntax(log) /\ ~MatchesRuntime(log) /\ MatchesConfig(log))
        /\ (op.ret = "data" <=>
              /\ ~MatchesSyntax(log) /\ ~MatchesRuntime(log)
              /\ ~MatchesConfig(log) /\ MatchesData(log))

\* C26 witness: the log "config TypeError" matches a runtime indicator
\* and a configuration keyword, and is classed runtime.
C26_Witness ==
    /\ op.name = "classify_error"
    /\ op.error_log = <<"c", "o", "n", "f", "i", "g">> \o <<" ">>
                          \o <<"T", "y", "p", "e", "E", "r", "r", "o", "r">>
    /\ MatchesConfig(op.error_log)
    /\ op.ret = "runtime"

\* C27 as stated: run_iteration_loop raises only when the initial
\* artifact cannot be read, and then records no round; every other
\* failure of a round is recorded and not raised.
C27_Original ==
    /\ (pc = "raised" => initial = NoFile)
    /\ (initial = NoFile => rounds = <<>>)

\* a patch that is non-empty, parses and passes the safety rules
Acceptable(code) ==
    /\ ~IsEmptyText(code)
    /\ validate_syntax(code)
    /\ ~SafetyCheckRaises(code)
    /\ safety_check(code).errors = <<>>

\* C28: every re-run of attempt_fix belongs to an attempt whose patch was
\* non-empty, parsed and was accepted by apply_patch before the re-run,
\* the live artifact then holding that patch; an attempt that ends
\* without a re-run leaves the live artifact as it was and runs no
\* backtest.
C28_RerunAfterAccept ==
    /\ [](\A i \in DOMAIN fix.runs :
             \E j \in DOMAIN fix.patched :
                 /\ fix.patched[j].attempt = fix.runs[i].attempt
                 /\ Acceptable(fix.patched[j].code))
    /\ [][/\ (Len(fix'.patched) > Len(fix.patched) =>
                 /\ pc = "repair" /\ pc' = "rerun"
                 /\ fix'.runs = fix.runs
                 /\ live' # NoFile
                 /\ live'.content = fix'.patched[Len(fix'.patched)].code)
          /\ (Len(fix'.runs) > Len(fix.runs) =>
                 /\ pc = "rerun"
                 /\ live' = live
                 /\ fix.patched[Len(fix.patched)].attempt = attempt
                 /\ live.content = fix.patched[Len(fix.patched)].code)
          /\ (pc = "repair" /\ pc' = "repair" =>
                 /\ attempt' = attempt + 1
                 /\ live' = live
                 /\ fix'.runs = fix.runs
                 /\ fix'.patched = fix.patched)]_vars

\* C28 witness: attempt 1 asked the service and ended without a re-run,
\* attempt 2 had its patch accepted and re-ran the backtest once.
C28_Witness ==
    /\ fix.calls = <<1, 2>>
    /\ Len(fix.patched) = 1
    /\ fix.patched[1].attempt = 2
    /\ Len(fix.runs) = 1
    /\ fix.runs[1].attempt = 2
    /\ live # NoFile
    /\ live.content = fix.patched[1].code

\* C29: whenever the backtest runner is about to be invoked by the loop (a
\* round's evaluation run, a repair re-run, the walk-forward runs) the
\* user_data copy has the content of the live artifact.
C29_Original ==
    pc \in {"backtest", "rerun", "walk"} => userdata = ContentOf(live)

\* the last backtest of the round in progress: the last repair re-run, or
\* the evaluation run when no re-run was made
LastRun ==
    IF fix.runs # <<>> THEN fix.runs[Len(fix.runs)].bt ELSE fix.evals[Len(fix.evals)]

\* C30: a success record is made only in a round whose patch apply_patch
\* accepted and whose last backtest (the evaluation run or a repair re-run,
\* made after the acceptance) succeeded; it carries that run's metrics and
\* their score, and the Evaluator was called once, on those metrics.  A
\* round whose patch is rejected makes no backtest and no Evaluator call.
C30_SuccessAfterRun ==
    /\ []((pc \in {"walk", "term"} /\ LastRound.status = "success") =>
             /\ fix.accepted
             /\ LastRound.strategy_version_path # NoPath
             /\ Len(fix.evals) = 1
             /\ LastRun.success
             /\ LastRound.backtest_metrics = LastRun.metrics
             /\ LastRound.score = evaluate(LastRun.metrics).score
             /\ fix.scored = <<LastRun.metrics>>)
    /\ []((pc = "term" /\ LastRound.next_action = <<"Patch rejected">>) =>
             /\ LastRound.status = "failed"
             /\ ~fix.accepted
             /\ fix.evals = <<>> /\ fix.runs = <<>> /\ fix.scored = <<>>)
    /\ [][(Len(fix'.evals) > Len(fix.evals) \/ Len(fix'.runs) > Len(fix.runs)) =>
             fix.accepted]_vars

\* C30 witness: a success record made by a repair re-run after a failed
\* evaluation run.
C30_Witness ==
    /\ pc = "term"
    /\ LastRound.status = "success"
    /\ fix.accepted
    /\ ~fix.evals[1].success
    /\ Len(fix.runs) = 1
    /\ LastRun.success
    /\ LastRound.backtest_metrics = MGood

\* a record of a round whose backtest failed with auto-repair disabled
BacktestFailed(r) == r.next_action = <<"Backtest failed">>

\* C31: when the evaluation backtest fails and auto-repair is disabled,
\* the round is recorded as failed with empty metrics and score 0, the
\* live artifact (the round's accepted patch, already synced to
\* user_data) and the backups are left as they are, and the next round
\* starts from that patched artifact.
C31_NoRollbackWithoutRepair ==
    /\ [][(pc = "backtest" /\ ~cfg.enable_auto_repair /\ Len(rounds') > Len(rounds)
              /\ rounds'[Len(rounds')].status # "success") =>
             /\ BacktestFailed(rounds'[Len(rounds')])
             /\ rounds'[Len(rounds')].status = "failed"
             /\ rounds'[Len(rounds')].backtest_metrics = EmptyMetrics
             /\ rounds'[Len(rounds')].score = 0
             /\ fix.accepted
             /\ live # NoFile
             /\ live' = live
             /\ backups' = backups
             /\ userdata = ContentOf(live)]_vars
    /\ []((pc \in {"term", "loop", "generate"} /\ rounds # <<>> /\ BacktestFailed(LastRound)) =>
             /\ ~cfg.enable_auto_repair
             /\ userdata = ContentOf(live)
             /\ artifacts[Len(artifacts)] = ContentOf(live)
             /\ (pc = "generate" => begin = ContentOf(live)))

\* C31 witness: round 2 has begun from the patch of round 1, whose
\* backtest failed with auto-repair disabled.
C31_Witness ==
    /\ pc = "generate"
    /\ round_no = 2
    /\ Len(rounds) = 1
    /\ BacktestFailed(LastRound)
    /\ LastRound.status = "failed"
    /\ begin = ContentOf(live)
    /\ begin # ContentOf(initial)

\* C32: with an out-of-sample timerange, a successful round whose
\* out-of-sample backtest or in-sample re-run fails is downgraded to
\* overfitting (as is one whose scores fail the comparison); without one,
\* walk-forward makes no backtest, passes, and leaves the record and the
\* files as they are.
C32_FailedRunDowngrades ==
    [][pc = "walk" =>
          LET n == Len(rounds)
              runs == fix'.wf
          IN
          /\ rounds[n].status = "success"
          /\ pc' = "term"
          /\ (~cfg.timerange_oos =>
                 /\ runs = <<>>
                 /\ rounds' = rounds
                 /\ live' = live /\ backups' = backups)
          /\ (cfg.timerange_oos =>
                 /\ Len(runs) \in {1, 2}
                 /\ (Len(runs) = 1 <=> ~runs[1].success)
                 /\ ((\E i \in DOMAIN runs : ~runs[i].success) =>
                        /\ rounds'[n].status = "overfitting"
                        /\ rounds'[n].next_action =
                              IF runs[1].success THEN <<"IS backtest failed">>
                              ELSE <<"OOS backtest failed">>)
                 /\ rounds'[n].status \in {"success", "overfitting"}
                 /\ (rounds'[n].status = "success" => rounds' = rounds))]_vars

\* C32 witness: the out-of-sample run succeeded, the in-sample re-run
\* failed, and the round is downgraded.
C32_Witness ==
    /\ pc = "term"
    /\ cfg.timerange_oos
    /\ Len(fix.wf) = 2
    /\ fix.wf[1].success
    /\ ~fix.wf[2].success
    /\ LastRound.status = "overfitting"
    /\ LastRound.next_action = <<"IS backtest failed">>

\* C33: with stale_rounds_limit >= 1, the termination check after a round
\* whose final status is not success never stops the loop and leaves the
\* records as they are; a loop that ended before max_rounds ended after a
\* successful round, and only successful rounds carry a STOP message.
C33_StopOnlyAfterSuccess ==
    /\ [][(pc = "term" /\ cfg.stale_rounds_limit >= 1 /\ LastRound.status # "success") =>
             /\ pc' = "loop"
             /\ rounds' = rounds]_vars
    /\ [](cfg.stale_rounds_limit >= 1 =>
             /\ \A i \in DOMAIN rounds :
                    IsStop(rounds[i].next_action) =>
                        rounds[i].status = "success" /\ i = Len(rounds)
             /\ (pc \in {"settle", "done"} /\ Len(rounds) < cfg.cap) =>
                    /\ LastRound.status = "success"
                    /\ IsStop(LastRound.next_action))

\* C33 witness: after a successful round and a round that did not succeed
\* the check let the loop go on, with a limit of at least one.
C33_Witness ==
    /\ pc = "loop"
    /\ cfg.stale_rounds_limit >= 1
    /\ Len(rounds) = 2
    /\ round_no < cfg.cap
    /\ rounds[1].status = "success"
    /\ rounds[2].status \in {"failed", "rolled_back", "overfitting"}
    /\ ~IsStop(rounds[2].next_action)

\* the records with status success, in order
Successful(rs) == SelectSeq(rs, LAMBDA r : r.status = "success")

C35_RecordFinalBeforeNextRound ==
    [][/\ Len(rounds') \in {Len(rounds), Len(rounds) + 1}
       /\ \A i \in DOMAIN rounds :
             rounds'[i] # rounds[i] =>
                /\ i = Len(rounds)
                /\ round_no = i
                /\ round_no' = round_no
                /\ pc \in {"walk", "term"}
                /\ rounds'[i].round = rounds[i].round
                /\ rounds'[i].backtest_metrics = rounds[i].backtest_metrics
                /\ rounds'[i].score = rounds[i].score
                /\ rounds'[i].changes_made = rounds[i].changes_made
                /\ rounds'[i].strategy_version_path = rounds[i].strategy_version_path
                /\ rounds'[i].status \in {rounds[i].status, "overfitting"}
       /\ (round_no' # round_no => rounds' = rounds \/ Len(rounds') = Len(rounds) + 1)]_vars

\* C35 witness: round 2 has begun after round 1's record was changed to
\* overfitting by the walk-forward check.
C35_Witness ==
    /\ pc = "generate"
    /\ round_no = 2
    /\ Len(rounds) = 1
    /\ rounds[1].status = "overfitting"
    /\ rounds[1].score # 0

RECURSIVE ProfitUpTo(_, _)
\* monthly_net_profit_avg summed over the successful ones of rs[1..n]
ProfitUpTo(rs, n) ==
    IF n = 0 THEN 0
    ELSE ProfitUpTo(rs, n - 1)
         + (IF rs[n].status = "success" /\ "monthly_net_profit_avg" \in DOMAIN rs[n].backtest_metrics
            THEN rs[n].backtest_metrics.monthly_net_profit_avg ELSE 0)

\* C36: a loop run settles once, when its rounds are over: the step that
\* settles is the only one that changes the settlement history and log, it
\* ends the run, appends one report to each, leaves the rounds as they are,
\* and the report's weekly_pnl is the sum of monthly_net_profit_avg over
\* the rounds whose final status is success; a run that has returned has
\* settled exactly one week.
C36_OneSettlementPerRun ==
    /\ [][(history' # history \/ report_log' # report_log) =>
             /\ pc \in {"settle", "loop"}
             /\ pc' = "done"
             /\ rounds' = rounds
             /\ Len(history') = Len(history) + 1
             /\ SubSeq(history', 1, Len(history)) = history
             /\ history'[Len(history')].weekly_pnl = ProfitUpTo(rounds, Len(rounds))
             /\ report_log'.exists
             /\ report_log'.lines =
                    Append(report_log.lines, dumps(history'[Len(history')]))]_vars
    /\ [](IF pc = "done"
          THEN Len(history) = 1 /\ Len(report_log.lines) = 1
          ELSE history = <<>> /\ report_log = NoLog)

\* C36 witness: a returned run of two rounds, the first downgraded to
\* overfitting, the second successful; the week's pnl is the second's.
C36_Witness ==
    /\ pc = "done"
    /\ Len(rounds) = 2
    /\ rounds[1].status = "overfitting"
    /\ rounds[1].backtest_metrics.monthly_net_profit_avg # 0
    /\ rounds[2].status = "success"
    /\ Len(history) = 1
    /\ history[1].weekly_pnl = rounds[2].backtest_metrics.monthly_net_profit_avg

\* C37: across settle_week, save_report and load_history calls on one
\* manager the in-memory history only grows at its end: every call leaves
\* the reports already there in place, and settle_week adds exactly one.
C37_Original ==
    [][/\ Len(history') >= Len(history)
       /\ SubSeq(history', 1, Len(history)) = history
       /\ (op'.name = "settle_week" => Len(history') = Len(history) + 1)
       /\ (op'.name = "save_report" => history' = history)]_vars

\* C38: across apply_patch and rollback calls the backup directory only
\* grows: no backup disappears, no backup changes its content, and every
\* accepted patch adds one new backup.
C38_Original ==
    [][/\ DOMAIN backups \subseteq DOMAIN backups'
       /\ \A p \in DOMAIN backups \cap DOMAIN backups' :
             backups'[p].content = backups[p].content
       /\ ((op'.name = "apply_patch" /\ calls' = calls + 1 /\ op'.ret.success) =>
              Cardinality(DOMAIN backups') = Cardinality(DOMAIN backups) + 1)]_vars

====
